---- MODULE Spec2Model ----
(***************************************************************************)
(* RSI trading bot: the decision engine of src/src/core/trading_bot.py,    *)
(* src/src/strategies/rsi_strategy.py and src/src/core/risk_manager.py.    *)
(*                                                                         *)
(* Numbers.  Prices are integers; a percentage p% of v is kept as          *)
(* calculate_percentage(bp, v) = bp * v in units of 1/10000, and the other *)
(* side of each comparison is scaled by Scaled(x) = 10000 * x, so every    *)
(* price comparison of the source is exact.  The indicator is an integer   *)
(* in 0..100; intensities are kept in tenths.  Money is in cents.  A       *)
(* quantity is the fraction num/den the source computes.  Time is the      *)
(* wall clock in minutes (datetime.now()); holding-time thresholds are      *)
(* compared in hundredths of a minute.                                     *)
(*                                                                         *)
(* The close-price series and calculate_rsi are folded into the tick's     *)
(* inputs: a tick carries the close and the value calculate_rsi returned   *)
(* for the updated series (NoRsi when it returned None).                   *)
(***************************************************************************)
EXTENDS Integers, Sequences, FiniteSets, TLC

VARIABLES
    now,              \* datetime.now(), minutes
    ticks,            \* candle messages delivered to _on_market_data so far
    cfg,              \* the configuration the bot was constructed with
    is_running,       \* TradingBot.is_running
    current_price,    \* TradingBot.current_price
    current_rsi,      \* TradingBot.current_rsi
    current_balance,  \* TradingBot.current_balance
    position,         \* TradingBot.position (NoPosition for None)
    stats,            \* TradingBot.stats
    trades,           \* the Trade records handed to stats.update, in order
    strategy,         \* the RSIStrategy instance
    risk,             \* the RiskManager instance
    ws,               \* the WebSocketHandler: is_running, and whether its last
                      \* on_message logged an error
    ret,              \* the last direct call of a RiskManager or RSIStrategy method
                      \* and what it returned
    pc,               \* where the market-data thread and the main thread stand inside
                      \* an exit that is in progress
    closes,           \* TradingBot.closes, the close-price series
    last_candle_closed  \* TradingBot.last_candle_closed

vars == <<now, ticks, cfg, is_running, current_price, current_rsi, current_balance,
          position, stats, trades, strategy, risk, ws, ret, pc, closes,
          last_candle_closed>>

----------------------------------------------------------------------------
(* Configuration (src/config/settings.py)                                  *)

RSI_OVERBOUGHT == 70
RSI_OVERSOLD == 30
MAX_LOSS_PERCENTAGE == 200        \* 2.0 %, in 1/100 %
MIN_PROFIT_PERCENTAGE == 75       \* 0.75 %
BIG_PROFIT_PERCENTAGE == 300      \* 3.0 %
MAX_RISK_PER_TRADE_PCT == 2       \* 2.0 %
MAX_DRAWDOWN_PCT == 1000          \* 10.0 %, in 1/100 %
SELL_AT_LOSS_0_5_HOURS == 30      \* 0.5 h, in minutes
SELL_AT_LOSS_1_0_HOURS == 90      \* 1.5 h
SELL_AT_LOSS_2_0_HOURS == 150     \* 2.5 h
MAX_HOLD_HOURS == 240             \* 4.0 h
MIN_RSI_COUNTER == 3
RSI_BOUNCE_THRESHOLD == 3
MIN_TIME_AFTER_SELL == 5          \* minutes
InitialBalance == 100000          \* TRADE_QUANTITY 1000 (dollars), in cents

----------------------------------------------------------------------------
(* Bounds of the model                                                     *)

MaxTime == 240        \* the clock stops advancing here (minutes)
MaxTicks == 7         \* candle messages delivered in one run
MaxRaceTicks == 6     \* the same, in the two-thread specification

Prices == {970, 1000, 1010}
RsiValues == {0, 50, 100}
TimeSteps == {0, 120}

----------------------------------------------------------------------------
(* Sentinels for Python's None and float('inf')                            *)

NoTime == -1
NoRsi == -1
Inf == 1000000

NoPosition ==
    [side |-> "NONE", quantity |-> [num |-> 0, den |-> 1], entry_price |-> 0,
     entry_time |-> NoTime, entry_rsi |-> NoRsi, current_price |-> 0,
     current_rsi |-> 0, unrealized_pnl |-> 0]

Max(a, b) == IF a >= b THEN a ELSE b

\* helpers.calculate_percentage, bp in 1/100 %, result in 1/10000 of value's unit
calculate_percentage(bp, value) == bp * value

Scaled(x) == 10000 * x

\* quantity * price for a quantity num/den
Times(q, price) == (q.num * price) \div q.den

----------------------------------------------------------------------------
(* RSIStrategy (src/src/strategies/rsi_strategy.py)                        *)

StrategyInit ==
    [highest_price |-> 0, lowest_price |-> Inf, lowest_rsi |-> 100, highest_rsi |-> 0,
     oversold_counter |-> 0, oversold_intensity |-> 0, oversold_start_time |-> NoTime,
     overbought_counter |-> 0, overbought_intensity |-> 0, overbought_start_time |-> NoTime,
     last_sell_time |-> NoTime,
     sell_at_buyprice |-> FALSE, sell_fast |-> FALSE, sell_very_fast |-> FALSE,
     very_fast_lose_amt |-> 100, sell_very_fast_time |-> NoTime]

\* update_price_extremes assigning the maxima instead of comparing them
update_price_extremes_assigning_high(s, price, rsi) ==
    [s EXCEPT !.highest_price = price,
              !.lowest_price = IF price < @ THEN price ELSE @,
              !.lowest_rsi = IF rsi < @ THEN rsi ELSE @,
              !.highest_rsi = rsi]

update_price_extremes(s, price, rsi) ==
    [s EXCEPT !.highest_price = IF price > @ THEN price ELSE @,
              !.lowest_price = IF price < @ THEN price ELSE @,
              !.lowest_rsi = IF rsi < @ THEN rsi ELSE @,
              !.highest_rsi = IF rsi > @ THEN rsi ELSE @]

reset_extremes(s) ==
    [s EXCEPT !.highest_price = 0, !.lowest_price = Inf,
              !.lowest_rsi = 100, !.highest_rsi = 0]

_reset_sell_flags(s) ==
    [s EXCEPT !.sell_at_buyprice = FALSE, !.sell_fast = FALSE, !.sell_very_fast = FALSE,
              !.very_fast_lose_amt = 100, !.sell_very_fast_time = NoTime]

\* the cooldown gate with a window of zero minutes
TooSoonAfterSell_zero_window(s, t) ==
    /\ s.last_sell_time # NoTime
    /\ t - s.last_sell_time < 0

\* the cooldown gate shared by should_buy and should_short
TooSoonAfterSell(s, t) ==
    /\ s.last_sell_time # NoTime
    /\ t - s.last_sell_time < MIN_TIME_AFTER_SELL

\* the oversold accumulator with its decays written without max(0, ...)
OversoldUpdate_unclamped(s, rsi, t) ==
    IF rsi < RSI_OVERSOLD THEN
        LET start == IF s.oversold_start_time = NoTime THEN t ELSE s.oversold_start_time
            bonus == IF t - start > 5 THEN 5 ELSE 0
        IN [s EXCEPT !.oversold_start_time = start,
                     !.oversold_intensity = @ + 10 + (RSI_OVERSOLD - rsi) + bonus,
                     !.oversold_counter = @ + 1]
    ELSE IF rsi < RSI_OVERSOLD + 5 THEN
        [s EXCEPT !.oversold_intensity = @ - 2]
    ELSE IF rsi < 45 THEN
        [s EXCEPT !.oversold_intensity = @ - 5,
                  !.oversold_counter = IF @ > 0 THEN @ - 1 ELSE @]
    ELSE IF s.oversold_intensity > 50 THEN
        [s EXCEPT !.oversold_intensity = @ - 20]
    ELSE
        [s EXCEPT !.oversold_intensity = 0, !.oversold_counter = 0,
                  !.oversold_start_time = NoTime]

\* the oversold accumulator of should_buy
OversoldUpdate(s, rsi, t) ==
    IF rsi < RSI_OVERSOLD THEN
        LET start == IF s.oversold_start_time = NoTime THEN t ELSE s.oversold_start_time
            bonus == IF t - start > 5 THEN 5 ELSE 0
        IN [s EXCEPT !.oversold_start_time = start,
                     !.oversold_intensity = @ + 10 + (RSI_OVERSOLD - rsi) + bonus,
                     !.oversold_counter = @ + 1]
    ELSE IF rsi < RSI_OVERSOLD + 5 THEN
        [s EXCEPT !.oversold_intensity = Max(0, @ - 2)]
    ELSE IF rsi < 45 THEN
        [s EXCEPT !.oversold_intensity = Max(0, @ - 5),
                  !.oversold_counter = IF @ > 0 THEN Max(0, @ - 1) ELSE @]
    ELSE IF s.oversold_intensity > 50 THEN
        [s EXCEPT !.oversold_intensity = Max(0, @ - 20)]
    ELSE
        [s EXCEPT !.oversold_intensity = 0, !.oversold_counter = 0,
                  !.oversold_start_time = NoTime]

\* the counter condition with the intensity threshold at 5.0 instead of 10.0
RsiCounterMet_intensity_5(s) ==
    \/ s.oversold_counter >= MIN_RSI_COUNTER
    \/ s.oversold_intensity >= 50

\* rsi_counter_met of should_buy: three oversold cycles, or an intensity of 10.0
RsiCounterMet(s) ==
    \/ s.oversold_counter >= MIN_RSI_COUNTER
    \/ s.oversold_intensity >= 100

\* should_buy with the bounce confirmation left out of the gate
should_buy_without_bounce(s0, price, rsi, in_position, t) ==
    IF in_position THEN [s |-> s0, signal |-> FALSE]
    ELSE IF TooSoonAfterSell(s0, t) THEN [s |-> s0, signal |-> FALSE]
    ELSE
        LET s1 == update_price_extremes(s0, price, rsi)
            top_price_threshold == Scaled(s1.highest_price)
                                      - calculate_percentage(75, s1.highest_price)
            s2 == OversoldUpdate(s1, rsi, t)
            rsi_counter_met == \/ s2.oversold_counter >= MIN_RSI_COUNTER
                               \/ s2.oversold_intensity >= 100
            price_condition_met == Scaled(price) <= top_price_threshold
        IN IF rsi_counter_met /\ price_condition_met
           THEN [s |-> [s2 EXCEPT !.oversold_counter = 0, !.oversold_intensity = 0,
                                  !.oversold_start_time = NoTime, !.lowest_rsi = 100],
                 signal |-> TRUE]
           ELSE [s |-> s2, signal |-> FALSE]

should_buy(s0, price, rsi, in_position, t) ==
    IF in_position THEN [s |-> s0, signal |-> FALSE]
    ELSE IF TooSoonAfterSell(s0, t) THEN [s |-> s0, signal |-> FALSE]
    ELSE
        LET s1 == update_price_extremes(s0, price, rsi)
            top_price_threshold == Scaled(s1.highest_price)
                                      - calculate_percentage(75, s1.highest_price)
            s2 == OversoldUpdate(s1, rsi, t)
            rsi_counter_met == RsiCounterMet(s2)
            price_condition_met == Scaled(price) <= top_price_threshold
            rsi_bounced == /\ s2.lowest_rsi < RSI_OVERSOLD
                           /\ rsi - s2.lowest_rsi >= RSI_BOUNCE_THRESHOLD
        IN IF rsi_counter_met /\ price_condition_met /\ rsi_bounced
           THEN [s |-> [s2 EXCEPT !.oversold_counter = 0, !.oversold_intensity = 0,
                                  !.oversold_start_time = NoTime, !.lowest_rsi = 100],
                 signal |-> TRUE]
           ELSE [s |-> s2, signal |-> FALSE]

\* the overbought accumulator of should_short
OverboughtUpdate(s, rsi, t) ==
    IF rsi > RSI_OVERBOUGHT THEN
        LET start == IF s.overbought_start_time = NoTime THEN t ELSE s.overbought_start_time
            bonus == IF t - start > 5 THEN 5 ELSE 0
        IN [s EXCEPT !.overbought_start_time = start,
                     !.overbought_intensity = @ + 10 + (rsi - RSI_OVERBOUGHT) + bonus,
                     !.overbought_counter = @ + 1]
    ELSE IF rsi > RSI_OVERBOUGHT - 5 THEN
        [s EXCEPT !.overbought_intensity = Max(0, @ - 2)]
    ELSE IF rsi > 55 THEN
        [s EXCEPT !.overbought_intensity = Max(0, @ - 5),
                  !.overbought_counter = IF @ > 0 THEN Max(0, @ - 1) ELSE @]
    ELSE IF s.overbought_intensity > 50 THEN
        [s EXCEPT !.overbought_intensity = Max(0, @ - 20)]
    ELSE
        [s EXCEPT !.overbought_intensity = 0, !.overbought_counter = 0,
                  !.overbought_start_time = NoTime]

should_short(s0, price, rsi, in_position, t) ==
    IF in_position THEN [s |-> s0, signal |-> FALSE]
    ELSE IF TooSoonAfterSell(s0, t) THEN [s |-> s0, signal |-> FALSE]
    ELSE
        LET s1 == update_price_extremes(s0, price, rsi)
            bottom_price_threshold == Scaled(s1.lowest_price)
                                         + calculate_percentage(75, s1.lowest_price)
            s2 == OverboughtUpdate(s1, rsi, t)
            rsi_counter_met == \/ s2.overbought_counter >= MIN_RSI_COUNTER
                               \/ s2.overbought_intensity >= 100
            price_condition_met == Scaled(price) >= bottom_price_threshold
            rsi_dropped == /\ s2.highest_rsi > RSI_OVERBOUGHT
                           /\ s2.highest_rsi - rsi >= RSI_BOUNCE_THRESHOLD
        IN IF rsi_counter_met /\ price_condition_met /\ rsi_dropped
           THEN [s |-> [s2 EXCEPT !.overbought_counter = 0, !.overbought_intensity = 0,
                                  !.overbought_start_time = NoTime, !.highest_rsi = 0],
                 signal |-> TRUE]
           ELSE [s |-> s2, signal |-> FALSE]


----------------------------------------------------------------------------
(* Position (src/src/models/trading_models.py)                             *)

\* Position.update: the unrealized P&L is computed the same way for both sides
PositionUpdate(pos, price, rsi) ==
    [pos EXCEPT !.current_price = price, !.current_rsi = rsi,
                !.unrealized_pnl = ((price - pos.entry_price) * pos.quantity.num)
                                       \div pos.quantity.den]

----------------------------------------------------------------------------
(* The exit state machine: should_sell                                     *)

\* mutant of HeldAtLeast: the first tier waits 3 hours, longer than the third
HeldAtLeast_first_tier_last(held, base, mult100) ==
    IF base = SELL_AT_LOSS_0_5_HOURS THEN 100 * held >= 180 * mult100
    ELSE 100 * held >= base * mult100

\* hours_held >= threshold * multiplier, in hundredths of a minute
HeldAtLeast(held, base, mult100) == 100 * held >= base * mult100

\* mutant of PriceTrend: 'recovering' reaches down to a loss of 3.5 %
PriceTrend_recovering_in_loss(side, entry, price) ==
    IF side = "LONG"
    THEN IF Scaled(price) - Scaled(entry) > - calculate_percentage(350, entry)
             THEN "recovering"
         ELSE "deteriorating"
    ELSE IF Scaled(price) - Scaled(entry) < calculate_percentage(350, entry)
             THEN "recovering"
         ELSE "deteriorating"

\* price_trend: recent_change = (current_price - entry_price) / entry_price * 100
\* against -0.3 and -1.5 for a LONG, against 0.3 and 1.5 for a SHORT
PriceTrend(side, entry, price) ==
    IF side = "LONG"
    THEN IF Scaled(price) - Scaled(entry) > - calculate_percentage(30, entry)
             THEN "recovering"
         ELSE IF Scaled(price) - Scaled(entry) < - calculate_percentage(150, entry)
             THEN "deteriorating"
         ELSE "neutral"
    ELSE IF Scaled(price) - Scaled(entry) < calculate_percentage(30, entry)
             THEN "recovering"
         ELSE IF Scaled(price) - Scaled(entry) > calculate_percentage(150, entry)
             THEN "deteriorating"
         ELSE "neutral"

\* mutant of RatchetUpdate: the tolerance is 3.0 from the activation on
RatchetUpdate_from_three(s, t) ==
    IF s.sell_very_fast /\ s.sell_very_fast_time # NoTime
    THEN [s EXCEPT !.very_fast_lose_amt = 300]
    ELSE s

\* the progressive loss tolerance of tier 3
RatchetUpdate(s, t) ==
    IF s.sell_very_fast /\ s.sell_very_fast_time # NoTime THEN
        LET vf == t - s.sell_very_fast_time
        IN [s EXCEPT !.very_fast_lose_amt =
                IF vf >= 90 THEN 300 ELSE IF vf >= 60 THEN 200
                ELSE IF vf >= 30 THEN 150 ELSE @]
    ELSE s

Decision(s, pos, close, reason, result, raised) ==
    [s |-> s, pos |-> pos, close |-> close, reason |-> reason,
     result |-> result, raised |-> raised]

\* a returned close decision: flags reset and last_sell_time stamped
CloseDecision(s, pos, reason, result, t) ==
    Decision([_reset_sell_flags(s) EXCEPT !.last_sell_time = t], pos,
             TRUE, reason, result, FALSE)

_should_close_long(s0, pos0, price, rsi, t) ==
    LET pos == PositionUpdate(pos0, price, rsi)
        entry == pos.entry_price
        s1 == [s0 EXCEPT !.highest_rsi = IF rsi > @ THEN rsi ELSE @]
        held == t - pos.entry_time
        price_trend == PriceTrend("LONG", entry, price)
        mult_0_5 == IF price_trend = "deteriorating" THEN 70
                    ELSE IF price_trend = "recovering" THEN 130 ELSE 100
        mult_1_0 == IF price_trend = "deteriorating" THEN 75
                    ELSE IF price_trend = "recovering" THEN 120 ELSE 100
        mult_2_0 == IF price_trend = "deteriorating" THEN 80 ELSE 100
        s2 == [s1 EXCEPT !.sell_at_buyprice =
                  \/ @
                  \/ /\ Scaled(price) <= Scaled(entry) - calculate_percentage(50, entry)
                     /\ HeldAtLeast(held, SELL_AT_LOSS_0_5_HOURS, mult_0_5)]
        s3 == [s2 EXCEPT !.sell_fast =
                  \/ @
                  \/ /\ Scaled(price) <= Scaled(entry) - calculate_percentage(100, entry)
                     /\ HeldAtLeast(held, SELL_AT_LOSS_1_0_HOURS, mult_1_0)]
        activate3 == /\ ~s3.sell_very_fast
                     /\ Scaled(price) <= Scaled(entry) - calculate_percentage(200, entry)
                     /\ HeldAtLeast(held, SELL_AT_LOSS_2_0_HOURS, mult_2_0)
        s4 == IF activate3
              THEN [s3 EXCEPT !.sell_very_fast = TRUE, !.sell_very_fast_time = t,
                              !.very_fast_lose_amt = 100]
              ELSE s3
        s == RatchetUpdate(s4, t)
    IN
    IF held >= MAX_HOLD_HOURS /\ pos.unrealized_pnl < 0
        THEN CloseDecision(s, pos, "max_hold", "loss", t)
    ELSE IF held >= MAX_HOLD_HOURS /\ rsi > RSI_OVERBOUGHT
        THEN CloseDecision(s, pos, "max_hold_rsi",
                           IF pos.unrealized_pnl > 0 THEN "win" ELSE "neutral", t)
    ELSE IF /\ rsi < RSI_OVERSOLD /\ s.sell_at_buyprice
            /\ Scaled(price) >= Scaled(entry) + calculate_percentage(15, entry)
        THEN CloseDecision(s, pos, "tier1", "win", t)
    ELSE IF /\ rsi < RSI_OVERSOLD /\ s.sell_fast
            /\ Scaled(price) >= Scaled(entry) - calculate_percentage(75, entry)
        THEN CloseDecision(s, pos, "tier2", "loss", t)
    ELSE IF /\ rsi < RSI_OVERSOLD /\ s.sell_very_fast
            /\ Scaled(price) >= Scaled(entry)
                                  - calculate_percentage(s.very_fast_lose_amt, entry)
        THEN CloseDecision(s, pos, "tier3", "loss", t)
    ELSE IF Scaled(price) >= Scaled(entry) + calculate_percentage(BIG_PROFIT_PERCENTAGE, entry)
        THEN CloseDecision(s, pos, "big_profit", "win", t)
    ELSE IF /\ rsi >= RSI_OVERBOUGHT
            /\ Scaled(price) >= Scaled(entry)
                                  + calculate_percentage(MIN_PROFIT_PERCENTAGE, entry)
            /\ rsi + 3 <= s.highest_rsi
        \* self.logger.success: logging.Logger has no such method, AttributeError
        THEN Decision(s, pos, FALSE, "min_profit", "neutral", TRUE)
    ELSE Decision(s, pos, FALSE, "none", "neutral", FALSE)

_should_close_short(s0, pos0, price, rsi, t) ==
    LET pos == PositionUpdate(pos0, price, rsi)
        entry == pos.entry_price
        s1 == [s0 EXCEPT !.lowest_rsi = IF rsi < @ THEN rsi ELSE @]
        held == t - pos.entry_time
        price_trend == PriceTrend("SHORT", entry, price)
        mult_0_5 == IF price_trend = "deteriorating" THEN 70
                    ELSE IF price_trend = "recovering" THEN 130 ELSE 100
        mult_1_0 == IF price_trend = "deteriorating" THEN 75
                    ELSE IF price_trend = "recovering" THEN 120 ELSE 100
        mult_2_0 == IF price_trend = "deteriorating" THEN 80 ELSE 100
        s2 == [s1 EXCEPT !.sell_at_buyprice =
                  \/ @
                  \/ /\ Scaled(price) >= Scaled(entry) + calculate_percentage(50, entry)
                     /\ HeldAtLeast(held, SELL_AT_LOSS_0_5_HOURS, mult_0_5)]
        s3 == [s2 EXCEPT !.sell_fast =
                  \/ @
                  \/ /\ Scaled(price) >= Scaled(entry) + calculate_percentage(100, entry)
                     /\ HeldAtLeast(held, SELL_AT_LOSS_1_0_HOURS, mult_1_0)]
        activate3 == /\ ~s3.sell_very_fast
                     /\ Scaled(price) >= Scaled(entry) + calculate_percentage(200, entry)
                     /\ HeldAtLeast(held, SELL_AT_LOSS_2_0_HOURS, mult_2_0)
        s4 == IF activate3
              THEN [s3 EXCEPT !.sell_very_fast = TRUE, !.sell_very_fast_time = t,
                              !.very_fast_lose_amt = 100]
              ELSE s3
        s == RatchetUpdate(s4, t)
    IN
    IF held >= MAX_HOLD_HOURS /\ pos.unrealized_pnl < 0
        THEN CloseDecision(s, pos, "max_hold", "loss", t)
    ELSE IF held >= MAX_HOLD_HOURS /\ rsi < RSI_OVERSOLD
        THEN CloseDecision(s, pos, "max_hold_rsi",
                           IF pos.unrealized_pnl > 0 THEN "win" ELSE "neutral", t)
    ELSE IF /\ rsi < RSI_OVERSOLD /\ s.sell_at_buyprice
            /\ Scaled(price) <= Scaled(entry) - calculate_percentage(15, entry)
        THEN CloseDecision(s, pos, "tier1", "win", t)
    ELSE IF /\ rsi < RSI_OVERSOLD /\ s.sell_fast
            /\ Scaled(price) <= Scaled(entry) + calculate_percentage(75, entry)
        THEN CloseDecision(s, pos, "tier2", "loss", t)
    ELSE IF /\ rsi < RSI_OVERSOLD /\ s.sell_very_fast
            /\ Scaled(price) <= Scaled(entry)
                                  + calculate_percentage(s.very_fast_lose_amt, entry)
        THEN CloseDecision(s, pos, "tier3", "loss", t)
    ELSE IF Scaled(price) <= Scaled(entry) - calculate_percentage(BIG_PROFIT_PERCENTAGE, entry)
        THEN CloseDecision(s, pos, "big_profit", "win", t)
    ELSE IF /\ rsi <= RSI_OVERSOLD
            /\ Scaled(price) <= Scaled(entry)
                                  - calculate_percentage(MIN_PROFIT_PERCENTAGE, entry)
            /\ rsi - 3 >= s.lowest_rsi
        \* self.logger.success: logging.Logger has no such method, AttributeError
        THEN Decision(s, pos, FALSE, "min_profit", "neutral", TRUE)
    ELSE Decision(s, pos, FALSE, "none", "neutral", FALSE)

\* should_sell with the SHORT rules reading the mirrored indicator (100 - rsi)
should_sell_mirrored_indicator(s, pos, price, rsi, t) ==
    IF pos.side = "LONG" THEN _should_close_long(s, pos, price, rsi, t)
    ELSE _should_close_short(s, pos, price, 100 - rsi, t)

should_sell(s, pos, price, rsi, t) ==
    IF pos.side = "LONG" THEN _should_close_long(s, pos, price, rsi, t)
    ELSE _should_close_short(s, pos, price, rsi, t)


----------------------------------------------------------------------------
(* RiskManager (src/src/core/risk_manager.py)                              *)

RiskInit(initial_balance) ==
    [peak_balance |-> initial_balance, current_drawdown_pct |-> 0]

\* stop_loss_price = 0 stands for None
calculate_position_size(dynamic, balance, entry_price, stop_loss_price, leverage) ==
    IF ~dynamic THEN [num |-> balance, den |-> entry_price]
    ELSE
        LET risk_amount == (balance * MAX_RISK_PER_TRADE_PCT) \div 100
            risk_per_unit == IF entry_price >= stop_loss_price
                             THEN entry_price - stop_loss_price
                             ELSE stop_loss_price - entry_price
        IN IF stop_loss_price > 0 THEN
               IF risk_per_unit > 0 THEN [num |-> risk_amount, den |-> risk_per_unit]
               ELSE [num |-> risk_amount, den |-> entry_price]
           ELSE [num |-> (balance * leverage * MAX_RISK_PER_TRADE_PCT) \div 100,
                 den |-> entry_price]

\* _update_drawdown with the drawdown left as it was when a new peak is recorded
_update_drawdown_keeps_drawdown(r, balance) ==
    IF balance > r.peak_balance
    THEN [r EXCEPT !.peak_balance = balance]
    ELSE [r EXCEPT !.current_drawdown_pct =
              ((r.peak_balance - balance) * 10000) \div r.peak_balance]

\* current_drawdown_pct is kept in 1/100 %
_update_drawdown(r, balance) ==
    IF balance > r.peak_balance
    THEN [peak_balance |-> balance, current_drawdown_pct |-> 0]
    ELSE [r EXCEPT !.current_drawdown_pct =
              ((r.peak_balance - balance) * 10000) \div r.peak_balance]

\* the drawdown limit with no limit at all
DrawdownLimitReached_never(r) == FALSE

\* validate_trade's test of the drawdown limit
DrawdownLimitReached(r) == r.current_drawdown_pct >= MAX_DRAWDOWN_PCT

\* validate_trade with the size tolerance written as 10 % instead of 1 %
validate_trade_tolerance_10(r, balance, position_size, entry_price, has_stats) ==
    LET trade_value == Times(position_size, entry_price)
        r1 == _update_drawdown(r, balance)
    IN IF balance <= 0
           THEN [risk |-> r, ok |-> FALSE, reason |-> "insufficient_balance"]
       ELSE IF 100 * trade_value > 110 * balance
           THEN [risk |-> r, ok |-> FALSE, reason |-> "position_too_large"]
       ELSE IF has_stats /\ r1.current_drawdown_pct >= MAX_DRAWDOWN_PCT
           THEN [risk |-> r1, ok |-> FALSE, reason |-> "max_drawdown"]
       ELSE [risk |-> IF has_stats THEN r1 ELSE r, ok |-> TRUE, reason |-> "validated"]

\* has_stats: the stats argument is given (a TradingStats object is truthy)
validate_trade(r, balance, position_size, entry_price, has_stats) ==
    LET trade_value == Times(position_size, entry_price)
        r1 == _update_drawdown(r, balance)
    IN IF balance <= 0
           THEN [risk |-> r, ok |-> FALSE, reason |-> "insufficient_balance"]
       ELSE IF 100 * trade_value > 101 * balance
           THEN [risk |-> r, ok |-> FALSE, reason |-> "position_too_large"]
       ELSE IF has_stats /\ DrawdownLimitReached(r1)
           THEN [risk |-> r1, ok |-> FALSE, reason |-> "max_drawdown"]
       ELSE [risk |-> IF has_stats THEN r1 ELSE r, ok |-> TRUE, reason |-> "validated"]

get_risk_status(r, balance) ==
    LET r1 == _update_drawdown(r, balance)
    IN [risk |-> r1,
        drawdown_warning |-> 10 * r1.current_drawdown_pct >= 8 * MAX_DRAWDOWN_PCT,
        drawdown_critical |-> r1.current_drawdown_pct >= MAX_DRAWDOWN_PCT]

----------------------------------------------------------------------------
(* TradingStats (src/src/models/trading_models.py)                         *)

RECURSIVE GCD(_, _)
GCD(a, b) == IF b = 0 THEN a ELSE GCD(b, a % b)

\* the quotient n / d of a division, d > 0, kept exact and in lowest terms
Quotient(n, d) ==
    LET g == GCD(IF n < 0 THEN -n ELSE n, d)
    IN [num |-> n \div g, den |-> d \div g]

StatsInit(initial_balance) ==
    [total_trades |-> 0, winning_trades |-> 0, losing_trades |-> 0,
     total_profit_loss |-> 0, largest_win |-> 0, largest_loss |-> 0,
     average_profit |-> [num |-> 0, den |-> 1],
     average_loss |-> [num |-> 0, den |-> 1],
     start_balance |-> initial_balance, current_balance |-> initial_balance]

\* (average * (count - 1) + profit_loss) / count, count being the incremented counter
RunningAverage(average, count, pl) ==
    Quotient(average.num * (count - 1) + pl * average.den, average.den * count)

\* TradingStats.update for a WIN or a LOSS; what `if trade.profit_loss:` guards is
\* skipped for a profit_loss of 0.0.  win_rate and average_trade_duration are not kept
StatsUpdate(st, trade) ==
    LET pl == trade.profit_loss
        win == trade.result = "WIN"
    IN [st EXCEPT
          !.total_trades = @ + 1,
          !.winning_trades = IF win THEN @ + 1 ELSE @,
          !.losing_trades = IF win THEN @ ELSE @ + 1,
          !.average_profit = IF win /\ pl # 0
                             THEN RunningAverage(@, st.winning_trades + 1, pl) ELSE @,
          !.average_loss = IF ~win /\ pl # 0
                           THEN RunningAverage(@, st.losing_trades + 1, pl) ELSE @,
          !.largest_win = IF win /\ pl > @ THEN pl ELSE @,
          !.largest_loss = IF ~win /\ pl < @ THEN pl ELSE @,
          !.total_profit_loss = @ + pl]


----------------------------------------------------------------------------
(* TradingBot (src/src/core/trading_bot.py)                                *)
(* The mutable fields of the bot travel through one tick as a record b.    *)

Config(fut, sim, dyn, lev) ==
    [is_futures |-> fut, is_simulation |-> sim, dynamic |-> dyn, leverage |-> lev]

\* TRADING_MODE, SIMULATION_MODE, DYNAMIC_POSITION_SIZING, DEFAULT_LEVERAGE
Configs ==
    { Config(FALSE, TRUE, FALSE, 1), Config(TRUE, FALSE, TRUE, 5),
      Config(TRUE, TRUE, TRUE, 125) }

Bot ==
    [current_balance |-> current_balance, position |-> position, stats |-> stats,
     trades |-> trades, strategy |-> strategy, risk |-> risk]

\* Position(...) as _execute_buy and _execute_short construct it; side is the
\* PositionSide they pass (trading_models.py declares no such field)
NewPosition(side, quantity, price, rsi, t) ==
    [side |-> side, quantity |-> quantity, entry_price |-> price, entry_time |-> t,
     entry_rsi |-> rsi, current_price |-> price, current_rsi |-> rsi,
     unrealized_pnl |-> 0]

\* _execute_buy and _execute_short share everything but the side and the spot branch.
\* Both call sites pass leverage= to validate_trade, a keyword it does not declare;
\* validate_trade is applied here to the parameters it declares.
ExecuteEntry(b, c, side, price, rsi, t, order_ok) ==
    LET quantity == calculate_position_size(c.dynamic, b.current_balance, price, 0, c.leverage)
        v == validate_trade(b.risk, b.current_balance, quantity, price, TRUE)
        margin_used == Times(quantity, price) \div c.leverage
        balance == IF c.is_futures THEN b.current_balance - margin_used ELSE 0
        was_open == b.position.side # "NONE"
    IN IF ~v.ok THEN
           [b |-> [b EXCEPT !.risk = v.risk], outcome |-> "rejected",
            reason |-> v.reason, while_open |-> FALSE]
       ELSE IF ~c.is_simulation /\ ~order_ok THEN
           [b |-> [b EXCEPT !.risk = v.risk, !.position = NoPosition],
            outcome |-> "order_failed", reason |-> v.reason, while_open |-> was_open]
       ELSE
           [b |-> [b EXCEPT !.risk = v.risk,
                            !.position = NewPosition(side, quantity, price, rsi, t),
                            !.current_balance = balance,
                            !.stats.current_balance = balance],
            outcome |-> "opened", reason |-> v.reason, while_open |-> was_open]

_execute_buy(b, c, price, rsi, t, order_ok) ==
    ExecuteEntry(b, c, "LONG", price, rsi, t, order_ok)

_execute_short(b, c, price, rsi, t, order_ok) ==
    IF ~c.is_futures
    THEN [b |-> b, outcome |-> "none", reason |-> "spot", while_open |-> FALSE]
    ELSE ExecuteEntry(b, c, "SHORT", price, rsi, t, order_ok)

\* _execute_sell (as_long) and _execute_cover (~as_long) on the position pos
ExecuteExit(b, c, as_long, price, reason, order_ok) ==
    LET pos == b.position
        entry_value == Times(pos.quantity, pos.entry_price)
        exit_value == Times(pos.quantity, price)
        profit_loss == IF as_long THEN exit_value - entry_value
                       ELSE entry_value - exit_value
        profit_loss_pct == (profit_loss * 10000) \div entry_value
        result == IF profit_loss >= 0 THEN "WIN" ELSE "LOSS"
        margin_used == entry_value \div c.leverage
        balance == IF c.is_futures \/ ~as_long
                   THEN b.current_balance + margin_used + profit_loss
                   ELSE exit_value
        trade == [side |-> pos.side, closed_as |-> IF as_long THEN "SELL" ELSE "COVER",
                  buy_price |-> pos.entry_price, sell_price |-> price,
                  profit_loss |-> profit_loss,
                  profit_loss_percentage |-> profit_loss_pct,
                  result |-> result, reason |-> reason]
    IN IF ~c.is_simulation /\ ~order_ok THEN
           [b |-> b, outcome |-> "order_failed"]
       ELSE
           [b |-> [b EXCEPT
                     !.current_balance = balance,
                     !.risk = get_risk_status(b.risk, balance).risk,
                     !.stats = StatsUpdate([b.stats EXCEPT !.current_balance = balance],
                                           trade),
                     !.trades = Append(@, trade),
                     !.position = NoPosition,
                     !.strategy = reset_extremes(@)],
            outcome |-> "closed"]

_execute_sell(b, c, price, reason, order_ok) ==
    ExecuteExit(b, c, TRUE, price, reason, order_ok)

\* _execute_cover computing its P&L and balance as _execute_sell does
_execute_cover_as_sell(b, c, price, reason, order_ok) ==
    ExecuteExit(b, c, TRUE, price, reason, order_ok)

_execute_cover(b, c, price, reason, order_ok) ==
    ExecuteExit(b, c, FALSE, price, reason, order_ok)

\* what one tick did: the signals, the outcome of each order path, and the bot
\* before and after each _execute_* call
NoEvent(b) ==
    [sell_signal |-> FALSE, sell_reason |-> "none", raised |-> FALSE,
     close |-> "none", close_pre |-> b, close_post |-> b,
     buy_signal |-> FALSE, buy |-> "none", buy_pre |-> b, buy_post |-> b,
     short_signal |-> FALSE, short |-> "none", short_pre |-> b, short_post |-> b,
     reject_reason |-> "none", entry_while_open |-> FALSE]

\* _process_trading_logic with a position open; d is the answer of should_sell
ProcessOpenPosition(b0, d, c, price, order_ok) ==
    LET b1 == [b0 EXCEPT !.strategy = d.s, !.position = d.pos]
        x == IF b1.position.side = "LONG"
             THEN _execute_sell(b1, c, price, d.reason, order_ok)
             ELSE _execute_cover(b1, c, price, d.reason, order_ok)
        b2 == IF d.close THEN x.b ELSE b1
    IN [b |-> b2,
        ev |-> [NoEvent(b0) EXCEPT
                  !.sell_signal = d.close, !.sell_reason = d.reason,
                  !.raised = d.raised,
                  !.close = IF d.close THEN x.outcome ELSE "none",
                  !.close_pre = b1, !.close_post = b2]]

\* the short check of a flat tick, made after the long check whatever it did;
\* ss is the answer of should_short, xb and b2 what the long check left
ProcessEntryShort(b0, sb, b1, xb, b2, ss, c, price, rsi, t, order_ok) ==
    LET b3 == [b2 EXCEPT !.strategy = ss.s]
        xs == _execute_short(b3, c, price, rsi, t, order_ok)
        b4 == IF c.is_futures THEN (IF ss.signal THEN xs.b ELSE b3) ELSE b2
        short_run == c.is_futures /\ ss.signal
    IN [b |-> b4,
        ev |-> [NoEvent(b0) EXCEPT
                  !.buy_signal = sb.signal,
                  !.buy = IF sb.signal THEN xb.outcome ELSE "none",
                  !.buy_pre = b1, !.buy_post = b2,
                  !.short_signal = short_run,
                  !.short = IF short_run THEN xs.outcome ELSE "none",
                  !.short_pre = IF short_run THEN b3 ELSE b4, !.short_post = b4,
                  !.reject_reason =
                      IF sb.signal /\ xb.outcome = "rejected" THEN xb.reason
                      ELSE IF short_run /\ xs.outcome = "rejected" THEN xs.reason
                      ELSE "none",
                  !.entry_while_open =
                      \/ sb.signal /\ xb.while_open
                      \/ short_run /\ xs.while_open]]

\* the long check of a flat tick; sb is the answer of should_buy
ProcessEntryLong(b0, sb, b1, xb, c, price, rsi, t, gw) ==
    LET b2 == IF sb.signal THEN xb.b ELSE b1
    IN ProcessEntryShort(b0, sb, b1, xb, b2,
                         should_short(b2.strategy, price, rsi, FALSE, t),
                         c, price, rsi, t, gw.short)

\* a flat tick: should_buy, then the two entry checks
ProcessFlat(b0, sb, b1, c, price, rsi, t, gw) ==
    ProcessEntryLong(b0, sb, b1, _execute_buy(b1, c, price, rsi, t, gw.buy),
                     c, price, rsi, t, gw)

\* _process_trading_logic; gw gives the gateway's answer to each order of the tick
_process_trading_logic(b0, c, price, rsi, t, gw) ==
    IF b0.position.side # "NONE" THEN
        ProcessOpenPosition(b0, should_sell(b0.strategy, b0.position, price, rsi, t),
                            c, price, gw.close)
    ELSE
        LET sb == should_buy(b0.strategy, price, rsi, FALSE, t)
        IN ProcessFlat(b0, sb, [b0 EXCEPT !.strategy = sb.s], c, price, rsi, t, gw)

\* _on_market_data once the indicator has a value: the extremes, then the trading logic
_on_market_data(b, c, close, rsi, t, gw) ==
    _process_trading_logic([b EXCEPT !.strategy = update_price_extremes(@, close, rsi)],
                           c, close, rsi, t, gw)

\* get_status, as the dashboard thread calls it: the fields it reads are left alone,
\* risk_manager.get_risk_status(self.current_balance, self.stats) runs _update_drawdown
get_status(b) ==
    [b EXCEPT !.risk = get_risk_status(b.risk, b.current_balance).risk]

\* WebSocketHandler.on_message without its except clauses: the exception leaves
\* on_message and ends the listener
on_message_without_except(w, raised) ==
    [is_running |-> w.is_running /\ ~raised, logged_error |-> FALSE]

\* what WebSocketHandler.on_message does to the handler w around the callback: an
\* exception raised in the callback is caught and logged, the handler keeps running
on_message(w, raised) ==
    [w EXCEPT !.logged_error = raised]

----------------------------------------------------------------------------
(* State machine                                                           *)

\* a thread that is not inside _execute_sell or _execute_cover
NoExit(at) ==
    [at |-> at, pos |-> NoPosition, price |-> 0, reason |-> "none"]

NoCall ==
    [op |-> "none", balance |-> 0, position_size |-> [num |-> 0, den |-> 1],
     entry_price |-> 0, has_stats |-> FALSE, before |-> RiskInit(InitialBalance),
     ok |-> TRUE, reason |-> "none"]

\* the bot constructed and started: start() has set is_running, the WebSocket is
\* open, no candle was loaded
\* the bot after construction and start(), whatever its configuration
InitBot ==
    /\ now = 0
    /\ ticks = 0
    /\ is_running = TRUE
    /\ current_price = 0
    /\ current_rsi = NoRsi
    /\ current_balance = InitialBalance
    /\ position = NoPosition
    /\ stats = StatsInit(InitialBalance)
    /\ trades = <<>>
    /\ strategy = StrategyInit
    /\ risk = RiskInit(InitialBalance)
    /\ ws = [is_running |-> TRUE, logged_error |-> FALSE]
    /\ ret = NoCall
    /\ pc = [market |-> NoExit("idle"), main |-> NoExit("running")]
    /\ closes = <<0>>
    /\ last_candle_closed = FALSE

Init ==
    /\ cfg \in Configs
    /\ InitBot

\* the answers the gateway can give; in simulation no order is sent
GatewayOutcomes ==
    IF cfg.is_simulation THEN {[buy |-> TRUE, short |-> TRUE, close |-> TRUE]}
    ELSE IF position.side # "NONE"
        THEN {[buy |-> TRUE, short |-> TRUE, close |-> ok] : ok \in BOOLEAN}
    ELSE IF cfg.is_futures
        THEN {[buy |-> o1, short |-> o2, close |-> TRUE] : o1 \in BOOLEAN, o2 \in BOOLEAN}
    ELSE {[buy |-> o1, short |-> TRUE, close |-> TRUE] : o1 \in BOOLEAN}

SetBot(b) ==
    /\ current_balance' = b.current_balance
    /\ position' = b.position
    /\ stats' = b.stats
    /\ trades' = b.trades
    /\ strategy' = b.strategy
    /\ risk' = b.risk

\* the outcome r of the callback as on_message leaves it: the bot's fields as the
\* callback wrote them, the handler as on_message left it
SetDelivered(r) ==
    /\ SetBot(r.b)
    /\ ws' = on_message(ws, r.ev.raised)

\* _on_market_data, the indicator not ready: the price is recorded, nothing is evaluated
OnMarketDataNoRsi(close, dt) ==
    /\ ws.is_running
    /\ is_running
    /\ now + dt <= MaxTime
    /\ ticks < MaxTicks
    /\ now' = now + dt
    /\ ticks' = ticks + 1
    /\ current_price' = close
    /\ current_rsi' = NoRsi
    /\ ws' = on_message(ws, FALSE)
    /\ UNCHANGED <<pc, closes, last_candle_closed, cfg, is_running, current_balance, position, stats, trades,
                   strategy, risk, ret>>

\* a candle message whose indicator has a value: on_message hands it to _on_market_data
OnMarketData(close, rsi, dt, gw) ==
    /\ ws.is_running
    /\ is_running
    /\ now + dt <= MaxTime
    /\ ticks < MaxTicks
    /\ SetDelivered(_on_market_data(Bot, cfg, close, rsi, now + dt, gw))
    /\ now' = now + dt
    /\ ticks' = ticks + 1
    /\ current_price' = close
    /\ current_rsi' = rsi
    /\ UNCHANGED <<pc, closes, last_candle_closed, cfg, is_running, ret>>

\* _on_market_data after stop(): the tick is dropped
OnMarketDataStopped ==
    /\ ~is_running
    /\ UNCHANGED <<pc, now, ticks, closes, last_candle_closed, cfg, is_running, current_price, current_rsi,
                   current_balance, position, stats, trades, strategy, risk, ws, ret>>

\* stop(): an open position is handed to _execute_sell at the last price.
\* _execute_sell formats self.current_rsi with :.2f before it sends the order, a
\* TypeError when the indicator is None: stop() then ends with the position as it was
\* and before ws_handler.stop() is reached.
Stop(order_ok) ==
    /\ is_running
    /\ is_running' = FALSE
    /\ IF position.side # "NONE" /\ current_rsi # NoRsi
       THEN LET x == _execute_sell(Bot, cfg, current_price, "shutdown", order_ok)
            IN SetBot(x.b)
       ELSE UNCHANGED <<current_balance, position, stats, trades, strategy, risk>>
    /\ ws' = IF position.side # "NONE" /\ current_rsi = NoRsi
             THEN ws
             ELSE [ws EXCEPT !.is_running = FALSE]
    /\ UNCHANGED <<pc, now, ticks, closes, last_candle_closed, cfg, current_price, current_rsi, ret>>

Next ==
    \/ \E close \in Prices, dt \in TimeSteps : OnMarketDataNoRsi(close, dt)
    \/ \E close \in Prices, rsi \in RsiValues, dt \in TimeSteps, gw \in GatewayOutcomes :
          OnMarketData(close, rsi, dt, gw)
    \/ OnMarketDataStopped
    \/ \E order_ok \in BOOLEAN : Stop(order_ok)

Spec == Init /\ [][Next]_vars

\* The same bot under each combination of trading mode and position sizing, orders
\* simulated; DEFAULT_LEVERAGE is used in futures mode only
SizingConfigs ==
    { Config(fut, TRUE, dyn, IF fut THEN 5 ELSE 1) : fut \in BOOLEAN, dyn \in BOOLEAN }

InitSizing ==
    /\ cfg \in SizingConfigs
    /\ InitBot

SpecSizing == InitSizing /\ [][Next]_vars

----------------------------------------------------------------------------
(* The same bot fed indicator values that make an exit rule raise: the      *)
(* overbought profit exit needs a value in [RSI_OVERBOUGHT, highest_rsi - 3] *)

FaultRsiValues == {0, 75, 100}

FaultNext ==
    \/ \E close \in Prices, dt \in TimeSteps : OnMarketDataNoRsi(close, dt)
    \/ \E close \in Prices, rsi \in FaultRsiValues, dt \in TimeSteps,
          gw \in GatewayOutcomes :
          OnMarketData(close, rsi, dt, gw)
    \/ OnMarketDataStopped
    \/ \E order_ok \in BOOLEAN : Stop(order_ok)

SpecFault == Init /\ [][FaultNext]_vars

----------------------------------------------------------------------------
(* The entry path as the source has it.  _execute_buy and _execute_short call *)
(* risk_manager.validate_trade(..., leverage=self.leverage, ...), a keyword     *)
(* validate_trade does not declare: Python raises TypeError at the call, before *)
(* the method's body.  The exception leaves _process_trading_logic and          *)
(* _on_market_data and is caught by on_message; what should_buy or should_short *)
(* wrote before the call stays written.                                        *)

\* the answer of an entry call that raised at validate_trade
EntryRaised(b) ==
    [b |-> b, outcome |-> "raised", reason |-> "TypeError", while_open |-> FALSE]

\* _execute_buy: calculate_position_size, then the validate_trade call raises
_execute_buy_as_written(b) == EntryRaised(b)

\* _execute_short: the futures guard, calculate_position_size, then the same call
_execute_short_as_written(b, c) ==
    IF ~c.is_futures
    THEN [b |-> b, outcome |-> "none", reason |-> "spot", while_open |-> FALSE]
    ELSE EntryRaised(b)

\* a flat tick; sb is the answer of should_buy, b1 the bot after it, ss the answer of
\* should_short on b1.  A long signal raises before the short check is reached.
ProcessFlatAsWritten(b0, sb, b1, ss, c) ==
    LET short_checked == ~sb.signal /\ c.is_futures
        b3 == IF short_checked THEN [b1 EXCEPT !.strategy = ss.s] ELSE b1
        short_run == short_checked /\ ss.signal
    IN [b |-> b3,
        ev |-> [NoEvent(b0) EXCEPT
                  !.raised = sb.signal \/ short_run,
                  !.buy_signal = sb.signal,
                  !.buy = IF sb.signal THEN _execute_buy_as_written(b1).outcome
                          ELSE "none",
                  !.buy_pre = b1, !.buy_post = b1,
                  !.short_signal = short_run,
                  !.short = IF short_run THEN _execute_short_as_written(b3, c).outcome
                            ELSE "none",
                  !.short_pre = b3, !.short_post = b3]]

_process_trading_logic_as_written(b0, c, price, rsi, t, gw) ==
    IF b0.position.side # "NONE" THEN
        ProcessOpenPosition(b0, should_sell(b0.strategy, b0.position, price, rsi, t),
                            c, price, gw.close)
    ELSE
        ProcessFlatAsWritten(b0, should_buy(b0.strategy, price, rsi, FALSE, t),
                             [b0 EXCEPT !.strategy =
                                  should_buy(b0.strategy, price, rsi, FALSE, t).s],
                             should_short(should_buy(b0.strategy, price, rsi, FALSE, t).s,
                                          price, rsi, FALSE, t),
                             c)

_on_market_data_as_written(b, c, close, rsi, t, gw) ==
    _process_trading_logic_as_written(
        [b EXCEPT !.strategy = update_price_extremes(@, close, rsi)],
        c, close, rsi, t, gw)

OnMarketDataAsWritten(close, rsi, dt, gw) ==
    /\ ws.is_running
    /\ is_running
    /\ now + dt <= MaxTime
    /\ ticks < MaxTicks
    /\ SetDelivered(_on_market_data_as_written(Bot, cfg, close, rsi, now + dt, gw))
    /\ now' = now + dt
    /\ ticks' = ticks + 1
    /\ current_price' = close
    /\ current_rsi' = rsi
    /\ UNCHANGED <<pc, closes, last_candle_closed, cfg, is_running, ret>>

AsWrittenNext ==
    \/ \E close \in Prices, dt \in TimeSteps : OnMarketDataNoRsi(close, dt)
    \/ \E close \in Prices, rsi \in RsiValues, dt \in TimeSteps, gw \in GatewayOutcomes :
          OnMarketDataAsWritten(close, rsi, dt, gw)
    \/ OnMarketDataStopped
    \/ \E order_ok \in BOOLEAN : Stop(order_ok)

SpecAsWritten == Init /\ [][AsWrittenNext]_vars

----------------------------------------------------------------------------
(* The two threads.  WebSocketHandler.start runs the listener, and with it    *)
(* _on_market_data, in ws_thread; main.py's signal handler calls bot.stop() on *)
(* the main thread.  No lock is taken anywhere.  An exit is three steps here:  *)
(* the decision to call _execute_sell / _execute_cover with the position as    *)
(* argument, the body up to stats.update(trade) and the notification (order,   *)
(* balance, risk status, Trade), and the final self.position = None with       *)
(* reset_extremes.  Everything else a thread does is one step.                 *)

\* the thread has called _execute_sell / _execute_cover(pos, price, reason)
InExit(at, pos, price, reason) ==
    [at |-> at, pos |-> pos, price |-> price, reason |-> reason]

\* the exit body run by a thread that entered it with e.pos
ExitBody(e, order_ok) ==
    IF e.pos.side = "LONG" \/ e.reason = "shutdown"
    THEN _execute_sell([Bot EXCEPT !.position = e.pos], cfg, e.price, e.reason, order_ok)
    ELSE _execute_cover([Bot EXCEPT !.position = e.pos], cfg, e.price, e.reason, order_ok)

\* the body up to the Trade: balance, risk status, statistics
SetCommitted(x) ==
    /\ current_balance' = x.b.current_balance
    /\ risk' = x.b.risk
    /\ stats' = x.b.stats
    /\ trades' = x.b.trades

\* a tick with a position open, by the market thread: should_sell, and the call of
\* the exit when it says so; d is the answer of should_sell
SetExitDecision(d, close) ==
    /\ strategy' = d.s
    /\ position' = d.pos
    /\ ws' = on_message(ws, d.raised)
    /\ pc' = IF d.close
             THEN [pc EXCEPT !.market = InExit("selling", d.pos, close, d.reason)]
             ELSE pc
    /\ UNCHANGED <<current_balance, stats, trades, risk>>

RaceTickNoRsi(close, dt) ==
    /\ pc.market.at = "idle"
    /\ OnMarketDataNoRsi(close, dt)

RaceTick(close, rsi, dt, gw) ==
    /\ pc.market.at = "idle"
    /\ ws.is_running
    /\ is_running
    /\ now + dt <= MaxTime
    /\ ticks < MaxRaceTicks
    /\ IF position.side = "NONE"
       THEN /\ SetDelivered(_on_market_data(Bot, cfg, close, rsi, now + dt, gw))
            /\ pc' = pc
       ELSE SetExitDecision(should_sell(update_price_extremes(strategy, close, rsi),
                                        position, close, rsi, now + dt), close)
    /\ now' = now + dt
    /\ ticks' = ticks + 1
    /\ current_price' = close
    /\ current_rsi' = rsi
    /\ UNCHANGED <<closes, last_candle_closed, cfg, is_running, ret>>

\* the market thread inside the exit: the order, the balance, the Trade
RaceExitBody(order_ok) ==
    /\ pc.market.at = "selling"
    /\ IF ExitBody(pc.market, order_ok).outcome = "order_failed"
       THEN /\ pc' = [pc EXCEPT !.market = NoExit("idle")]
            /\ UNCHANGED <<current_balance, risk, stats, trades>>
       ELSE /\ SetCommitted(ExitBody(pc.market, order_ok))
            /\ pc' = [pc EXCEPT !.market.at = "clearing"]
    /\ UNCHANGED <<now, ticks, closes, last_candle_closed, cfg, is_running, current_price, current_rsi, position,
                   strategy, ws, ret>>

\* self.position = None and strategy.reset_extremes() at the end of the exit
RaceExitClear ==
    /\ pc.market.at = "clearing"
    /\ position' = NoPosition
    /\ strategy' = reset_extremes(strategy)
    /\ pc' = [pc EXCEPT !.market = NoExit("idle")]
    /\ UNCHANGED <<now, ticks, closes, last_candle_closed, cfg, is_running, current_price, current_rsi,
                   current_balance, stats, trades, risk, ws, ret>>

\* stop() on the main thread: is_running = False, then the test of self.position
RaceStop ==
    /\ pc.main.at = "running"
    /\ is_running
    /\ is_running' = FALSE
    /\ pc' = [pc EXCEPT !.main =
                 IF position.side # "NONE"
                 THEN InExit("selling", position, current_price, "shutdown")
                 ELSE NoExit("ws_stop")]
    /\ UNCHANGED <<now, ticks, closes, last_candle_closed, cfg, current_price, current_rsi, current_balance,
                   position, stats, trades, strategy, risk, ws, ret>>

\* stop() inside _execute_sell; with the indicator None the RSI log line raises and
\* stop() ends there
RaceStopBody(order_ok) ==
    /\ pc.main.at = "selling"
    /\ IF current_rsi = NoRsi
       THEN /\ pc' = [pc EXCEPT !.main = NoExit("stopped")]
            /\ UNCHANGED <<current_balance, risk, stats, trades>>
       ELSE IF ExitBody(pc.main, order_ok).outcome = "order_failed"
       THEN /\ pc' = [pc EXCEPT !.main = NoExit("ws_stop")]
            /\ UNCHANGED <<current_balance, risk, stats, trades>>
       ELSE /\ SetCommitted(ExitBody(pc.main, order_ok))
            /\ pc' = [pc EXCEPT !.main.at = "clearing"]
    /\ UNCHANGED <<now, ticks, closes, last_candle_closed, cfg, is_running, current_price, current_rsi, position,
                   strategy, ws, ret>>

RaceStopClear ==
    /\ pc.main.at = "clearing"
    /\ position' = NoPosition
    /\ strategy' = reset_extremes(strategy)
    /\ pc' = [pc EXCEPT !.main = NoExit("ws_stop")]
    /\ UNCHANGED <<now, ticks, closes, last_candle_closed, cfg, is_running, current_price, current_rsi,
                   current_balance, stats, trades, risk, ws, ret>>

\* ws_handler.stop()
RaceStopWebSocket ==
    /\ pc.main.at = "ws_stop"
    /\ ws' = [ws EXCEPT !.is_running = FALSE]
    /\ pc' = [pc EXCEPT !.main = NoExit("stopped")]
    /\ UNCHANGED <<now, ticks, closes, last_candle_closed, cfg, is_running, current_price, current_rsi,
                   current_balance, position, stats, trades, strategy, risk, ret>>

RaceNext ==
    \/ \E close \in Prices, dt \in TimeSteps : RaceTickNoRsi(close, dt)
    \/ \E close \in Prices, rsi \in RsiValues, dt \in TimeSteps, gw \in GatewayOutcomes :
          RaceTick(close, rsi, dt, gw)
    \/ \E order_ok \in BOOLEAN : RaceExitBody(order_ok)
    \/ RaceExitClear
    \/ RaceStop
    \/ \E order_ok \in BOOLEAN : RaceStopBody(order_ok)
    \/ RaceStopClear
    \/ RaceStopWebSocket

SpecRace == Init /\ [][RaceNext]_vars

----------------------------------------------------------------------------
(* The RiskManager called directly, as its tests and the dashboard call it  *)

RiskBalances == {-100, 0, 80000, 90000, 100000, 110000}
RiskSizes == {[num |-> n, den |-> 1] : n \in {50, 100, 102}}

CallValidateTrade(balance, position_size, entry_price, has_stats) ==
    LET v == validate_trade(risk, balance, position_size, entry_price, has_stats)
    IN /\ risk' = v.risk
       /\ ret' = [op |-> "validate_trade", balance |-> balance,
                  position_size |-> position_size, entry_price |-> entry_price,
                  has_stats |-> has_stats, before |-> risk,
                  ok |-> v.ok, reason |-> v.reason]
       /\ UNCHANGED <<pc, now, ticks, closes, last_candle_closed, cfg, is_running, current_price, current_rsi,
                      current_balance, position, stats, trades, strategy, ws>>

CallGetRiskStatus(balance) ==
    /\ risk' = get_risk_status(risk, balance).risk
    /\ ret' = [NoCall EXCEPT !.op = "get_risk_status", !.balance = balance,
                             !.before = risk]
    /\ UNCHANGED <<pc, now, ticks, closes, last_candle_closed, cfg, is_running, current_price, current_rsi,
                   current_balance, position, stats, trades, strategy, ws>>

RiskNext ==
    \/ \E balance \in RiskBalances, position_size \in RiskSizes, entry_price \in Prices,
          has_stats \in BOOLEAN :
          CallValidateTrade(balance, position_size, entry_price, has_stats)
    \/ \E balance \in RiskBalances : CallGetRiskStatus(balance)

SpecRisk == Init /\ [][RiskNext]_vars

\* The sizing and the validation of an entry as _execute_buy and _execute_short chain
\* them: calculate_position_size without a stop-loss, then validate_trade on the
\* quantity it returned, validate_trade taking the parameters it declares
Leverages == {1, 5, 50, 51, 125}
SizedBalances == {1, 100, 99999, 100000}

SizeThenValidate(dynamic, leverage, balance, entry_price, size) ==
    /\ risk' = validate_trade(risk, balance, size, entry_price, TRUE).risk
    /\ ret' = [op |-> "size_then_validate", dynamic |-> dynamic, leverage |-> leverage,
               balance |-> balance, entry_price |-> entry_price, position_size |-> size,
               before |-> risk,
               ok |-> validate_trade(risk, balance, size, entry_price, TRUE).ok,
               reason |-> validate_trade(risk, balance, size, entry_price, TRUE).reason]
    /\ UNCHANGED <<pc, now, ticks, closes, last_candle_closed, cfg, is_running,
                   current_price, current_rsi, current_balance, position, stats, trades,
                   strategy, ws>>

CallSizeThenValidate(dynamic, leverage, balance, entry_price) ==
    SizeThenValidate(dynamic, leverage, balance, entry_price,
                     calculate_position_size(dynamic, balance, entry_price, 0, leverage))

EntrySizeNext ==
    \E dynamic \in BOOLEAN, leverage \in Leverages, balance \in SizedBalances,
       entry_price \in Prices :
        CallSizeThenValidate(dynamic, leverage, balance, entry_price)

SpecEntrySize == Init /\ [][EntrySizeNext]_vars

----------------------------------------------------------------------------
(* The RSIStrategy called directly, as its tests call it                    *)

MaxCalls == 4         \* direct strategy calls made in one run

StrategyPrices == {970, 1000}
BuyRsiValues == {0, 32, 40, 50}
ShortRsiValues == {50, 60, 68, 100}
\* minutes between two direct calls: inside and at the end of the cooldown
StrategyTimeSteps == {0, 5}

\* a Position built by the caller, entered at time 0
TestPosition(side) == NewPosition(side, [num |-> 1, den |-> 1], 1000, 50, 0)

StrategyCall(op, price, rsi, t, signal) ==
    [op |-> op, price |-> price, rsi |-> rsi, t |-> t, before |-> strategy,
     signal |-> signal]

CallShouldBuy(price, rsi, dt) ==
    LET r == should_buy(strategy, price, rsi, FALSE, now + dt)
    IN /\ ticks < MaxCalls
       /\ now + dt <= MaxTime
       /\ strategy' = r.s
       /\ now' = now + dt
       /\ ticks' = ticks + 1
       /\ ret' = StrategyCall("should_buy", price, rsi, now + dt, r.signal)
       /\ UNCHANGED <<pc, closes, last_candle_closed, cfg, is_running, current_price, current_rsi, current_balance,
                      position, stats, trades, risk, ws>>

CallShouldShort(price, rsi, dt) ==
    LET r == should_short(strategy, price, rsi, FALSE, now + dt)
    IN /\ ticks < MaxCalls
       /\ now + dt <= MaxTime
       /\ strategy' = r.s
       /\ now' = now + dt
       /\ ticks' = ticks + 1
       /\ ret' = StrategyCall("should_short", price, rsi, now + dt, r.signal)
       /\ UNCHANGED <<pc, closes, last_candle_closed, cfg, is_running, current_price, current_rsi, current_balance,
                      position, stats, trades, risk, ws>>

CallShouldSell(side, price, rsi, dt) ==
    LET d == should_sell(strategy, TestPosition(side), price, rsi, now + dt)
    IN /\ ticks < MaxCalls
       /\ now + dt <= MaxTime
       /\ strategy' = d.s
       /\ now' = now + dt
       /\ ticks' = ticks + 1
       /\ ret' = StrategyCall("should_sell", price, rsi, now + dt, d.close)
       /\ UNCHANGED <<pc, closes, last_candle_closed, cfg, is_running, current_price, current_rsi, current_balance,
                      position, stats, trades, risk, ws>>

StrategyNext ==
    \/ \E price \in StrategyPrices, rsi \in BuyRsiValues, dt \in StrategyTimeSteps :
          CallShouldBuy(price, rsi, dt)
    \/ \E price \in StrategyPrices, rsi \in ShortRsiValues, dt \in StrategyTimeSteps :
          CallShouldShort(price, rsi, dt)
    \/ \E side \in {"LONG", "SHORT"}, price \in StrategyPrices, rsi \in RsiValues,
          dt \in StrategyTimeSteps :
          CallShouldSell(side, price, rsi, dt)

SpecStrategy == Init /\ [][StrategyNext]_vars

----------------------------------------------------------------------------
(* TechnicalIndicators.calculate_rsi (src/src/indicators/technical_indicators.py) *)
(* called directly on a price series.  The value is kept as the integer part   *)
(* of 100 * gain / (gain + loss), the two rolling means having the same window. *)

MaxSeries == 5        \* longest price series handed to calculate_rsi
SeriesPrices == {990, 1000, 1010}
Periods == {2, 3}
PriceSeries == UNION {[1..n -> SeriesPrices] : n \in 0..MaxSeries}

RECURSIVE WindowSum(_, _, _, _)
\* sum over the deltas i..Len(prices) of the gains (up) or of the losses (~up):
\* delta.where(delta > 0, 0) and -delta.where(delta < 0, 0) under rolling(window)
WindowSum(prices, i, up, acc) ==
    IF i > Len(prices) THEN acc
    ELSE LET delta == prices[i] - prices[i - 1]
             term == IF up THEN (IF delta > 0 THEN delta ELSE 0)
                     ELSE (IF delta < 0 THEN -delta ELSE 0)
         IN WindowSum(prices, i + 1, up, acc + term)

\* rs = gain / loss is NaN for 0 / 0 and inf for gain / 0: pd.isna(NaN) makes the
\* result None, and 100 - 100 / (1 + inf) is 100
calculate_rsi(prices, period) ==
    IF Len(prices) < period + 1 THEN NoRsi
    ELSE LET gain == WindowSum(prices, Len(prices) - period + 1, TRUE, 0)
             loss == WindowSum(prices, Len(prices) - period + 1, FALSE, 0)
         IN IF loss = 0 THEN (IF gain = 0 THEN NoRsi ELSE 100)
            ELSE (100 * gain) \div (gain + loss)

CallCalculateRsi(prices, period) ==
    /\ ret' = [op |-> "calculate_rsi", prices |-> prices, period |-> period,
               value |-> calculate_rsi(prices, period)]
    /\ UNCHANGED <<pc, now, ticks, closes, last_candle_closed, cfg, is_running, current_price, current_rsi,
                   current_balance, position, stats, trades, strategy, risk, ws>>

RsiNext ==
    \E prices \in PriceSeries, period \in Periods : CallCalculateRsi(prices, period)

SpecRsi == Init /\ [][RsiNext]_vars

----------------------------------------------------------------------------
(* The extremes tracker of RSIStrategy called directly, as test_strategy.py    *)
(* calls update_price_extremes and reset_extremes                              *)

CallUpdatePriceExtremes(price, rsi) ==
    /\ strategy' = update_price_extremes(strategy, price, rsi)
    /\ ret' = [op |-> "update_price_extremes", price |-> price, rsi |-> rsi,
               before |-> strategy]
    /\ UNCHANGED <<pc, now, ticks, closes, last_candle_closed, cfg, is_running, current_price, current_rsi,
                   current_balance, position, stats, trades, risk, ws>>

CallResetExtremes ==
    /\ strategy' = reset_extremes(strategy)
    /\ ret' = [op |-> "reset_extremes", price |-> 0, rsi |-> 0, before |-> strategy]
    /\ UNCHANGED <<pc, now, ticks, closes, last_candle_closed, cfg, is_running, current_price, current_rsi,
                   current_balance, position, stats, trades, risk, ws>>

ExtremesNext ==
    \/ \E price \in Prices, rsi \in ShortRsiValues \cup BuyRsiValues :
          CallUpdatePriceExtremes(price, rsi)
    \/ CallResetExtremes

SpecExtremes == Init /\ [][ExtremesNext]_vars

-----------------------------------------------------------------------------
(* should_sell called tick after tick on one held position, with holding     *)
(* times on every step of the tier schedule and prices three percent away    *)
(* from the entry on both sides                                              *)

MaxHeldCalls == 5     \* should_sell calls made on the held position
HeldPrices == {970, 1000, 1030}
HeldTimeSteps == {0, 30, 90}

OpenHeldPosition(side) ==
    /\ position.side = "NONE"
    /\ ticks = 0
    /\ position' = TestPosition(side)
    /\ ret' = [op |-> "open", side |-> side]
    /\ UNCHANGED <<pc, now, ticks, closes, last_candle_closed, cfg, is_running, current_price, current_rsi,
                   current_balance, stats, trades, strategy, risk, ws>>

HeldCall(d, price, rsi, t) ==
    /\ strategy' = d.s
    /\ ret' = [op |-> "should_sell", price |-> price, rsi |-> rsi, t |-> t,
               before |-> strategy, close |-> d.close, reason |-> d.reason,
               result |-> d.result, raised |-> d.raised]

CallShouldSellHeld(price, rsi, dt) ==
    /\ position.side # "NONE"
    /\ ticks < MaxHeldCalls
    /\ now + dt <= MaxTime
    /\ HeldCall(should_sell(strategy, position, price, rsi, now + dt), price, rsi, now + dt)
    /\ now' = now + dt
    /\ ticks' = ticks + 1
    /\ UNCHANGED <<pc, closes, last_candle_closed, cfg, is_running, current_price, current_rsi, current_balance,
                   position, stats, trades, risk, ws>>

HeldNext ==
    \/ \E side \in {"LONG", "SHORT"} : OpenHeldPosition(side)
    \/ \E price \in HeldPrices, rsi \in RsiValues, dt \in HeldTimeSteps :
          CallShouldSellHeld(price, rsi, dt)

SpecHeld == Init /\ [][HeldNext]_vars

-----------------------------------------------------------------------------
(* The close-price series.  Here a candle message carries its close and its   *)
(* is_closed flag, _on_market_data keeps self.closes and last_candle_closed,   *)
(* and the indicator is calculate_rsi of the updated series, over a period     *)
(* short enough for the series of the model to be longer than it.             *)

MaxCandles == 5       \* candle messages delivered in one run
CandlePeriod == 2     \* RSI_PERIOD of this specification
CandlePrices == {990, 1000, 1010}
Histories == {<<1000, 990>>, <<1000, 1010, 1000>>}

\* mutant of UpdateCloses: every candle message appends
UpdateCloses_always_append(cl, closed, price) == Append(cl, price)

\* self.closes after the message: a new candle appends, an open one is overwritten
UpdateCloses(cl, closed, price) ==
    IF closed THEN Append(cl, price) ELSE [cl EXCEPT ![Len(cl)] = price]

\* _initialize_market_data: the klines replace the dummy series
InitializeMarketData(klines) ==
    /\ ticks = 0
    /\ ret = NoCall
    /\ closes' = klines
    /\ current_price' = klines[Len(klines)]
    /\ current_rsi' = calculate_rsi(klines, CandlePeriod)
    /\ ret' = [op |-> "klines"]
    /\ UNCHANGED <<pc, now, ticks, last_candle_closed, cfg, is_running, current_balance,
                   position, stats, trades, strategy, risk, ws>>

\* the part of _on_market_data after the series update, cl being the updated series
AfterSeriesUpdate(cl, close, t, gw) ==
    IF Len(cl) <= CandlePeriod
    THEN /\ ws' = on_message(ws, FALSE)
         /\ UNCHANGED <<current_rsi, current_balance, position, stats, trades,
                        strategy, risk>>
    ELSE /\ current_rsi' = calculate_rsi(cl, CandlePeriod)
         /\ IF calculate_rsi(cl, CandlePeriod) = NoRsi
            THEN /\ ws' = on_message(ws, FALSE)
                 /\ UNCHANGED <<current_balance, position, stats, trades, strategy, risk>>
            ELSE SetDelivered(_on_market_data(Bot, cfg, close,
                                              calculate_rsi(cl, CandlePeriod), t, gw))

\* a candle message handed to _on_market_data
OnCandle(close, is_closed, dt, gw) ==
    /\ ws.is_running
    /\ is_running
    /\ now + dt <= MaxTime
    /\ ticks < MaxCandles
    /\ closes' = UpdateCloses(closes, last_candle_closed, close)
    /\ last_candle_closed' = is_closed
    /\ current_price' = close
    /\ AfterSeriesUpdate(UpdateCloses(closes, last_candle_closed, close), close,
                         now + dt, gw)
    /\ now' = now + dt
    /\ ticks' = ticks + 1
    /\ ret' = [op |-> "candle", close |-> close, is_closed |-> is_closed]
    /\ UNCHANGED <<pc, cfg, is_running>>

CandleNext ==
    \/ \E klines \in Histories : InitializeMarketData(klines)
    \/ \E close \in CandlePrices, is_closed \in BOOLEAN, dt \in TimeSteps,
          gw \in GatewayOutcomes : OnCandle(close, is_closed, dt, gw)
    \/ OnMarketDataStopped
    \/ \E order_ok \in BOOLEAN : Stop(order_ok)

SpecCandles == Init /\ [][CandleNext]_vars

-----------------------------------------------------------------------------
(* The bot run long enough for a round trip, its cooldown and a second entry   *)
(* attempt, over prices whose fall from entry to exit exceeds MAX_DRAWDOWN_PCT  *)

MaxDrawdownTicks == 10    \* candle messages delivered in one run
MaxDrawdownTime == 360    \* the clock stops advancing here (minutes)
DrawdownPrices == {880, 990, 1000}
DrawdownRsiValues == {0, 50}

\* the default configuration, and futures with fixed sizing; orders simulated
DrawdownConfigs == { Config(FALSE, TRUE, TRUE, 1), Config(TRUE, TRUE, FALSE, 5) }

InitDrawdown ==
    /\ cfg \in DrawdownConfigs
    /\ InitBot

\* r is what _on_market_data does with the message; ret keeps whether the bot was flat
\* when the message came and why an entry was refused, if one was
DeliverLongRun(r) ==
    /\ SetDelivered(r)
    /\ ret' = [op |-> "tick", flat_before |-> position.side = "NONE",
               reject_reason |-> r.ev.reject_reason]

\* a candle message whose indicator has a value, as OnMarketData
OnMarketDataLongRun(close, rsi, dt, gw) ==
    /\ ws.is_running
    /\ is_running
    /\ now + dt <= MaxDrawdownTime
    /\ ticks < MaxDrawdownTicks
    /\ DeliverLongRun(_on_market_data(Bot, cfg, close, rsi, now + dt, gw))
    /\ now' = now + dt
    /\ ticks' = ticks + 1
    /\ current_price' = close
    /\ current_rsi' = rsi
    /\ UNCHANGED <<pc, closes, last_candle_closed, cfg, is_running>>

DrawdownNext ==
    \/ \E close \in DrawdownPrices, rsi \in DrawdownRsiValues, dt \in TimeSteps,
          gw \in GatewayOutcomes : OnMarketDataLongRun(close, rsi, dt, gw)
    \/ OnMarketDataStopped
    \/ \E order_ok \in BOOLEAN : Stop(order_ok)

SpecDrawdown == InitDrawdown /\ [][DrawdownNext]_vars

----------------------------------------------------------------------------
(* should_buy called tick after tick, the oversold ticks counted by the     *)
(* caller                                                                   *)

MaxOversoldCalls == 6    \* direct strategy calls made in one run
MaxOversoldTime == 18    \* the clock stops advancing here (minutes)

OversoldPrices == {970, 1000}
\* what the caller's position, entered at 1000, is offered: a loss and a 3 % profit
OversoldSellPrices == {970, 1030}
\* deep and shallow oversold, the buffer zone, the slow decay, the reset zone
OversoldRsiValues == {0, 20, 29, 33, 40, 50}
\* minutes between two calls: the duration bonus starts after 5
OversoldTimeSteps == {0, 6}

\* oversold ticks should_buy has processed since its accumulators were last reset
OversoldSeen == IF ret = NoCall THEN 0 ELSE ret.oversold_seen

\* the branch of should_buy that zeroes the counter, the intensity and the start time
OversoldFullReset(s, rsi) == rsi >= 45 /\ s.oversold_intensity <= 50

\* the call gets past both early returns of should_buy (in_position is False)
ReachesAccumulator(s, t) == ~TooSoonAfterSell(s, t)

SeenAtGate(rsi, t) ==
    OversoldSeen + (IF ReachesAccumulator(strategy, t) /\ rsi < RSI_OVERSOLD THEN 1 ELSE 0)

\* r is what should_buy returned; seen counts this tick in
CountedBuy(r, price, rsi, t, seen) ==
    /\ strategy' = r.s
    /\ ret' = [op |-> "should_buy", price |-> price, rsi |-> rsi, t |-> t,
               before |-> strategy, signal |-> r.signal, seen_at_gate |-> seen,
               oversold_seen |->
                   IF \/ r.signal
                      \/ ReachesAccumulator(strategy, t) /\ OversoldFullReset(strategy, rsi)
                   THEN 0 ELSE seen]

CallShouldBuyCounted(price, rsi, dt) ==
    /\ ticks < MaxOversoldCalls
    /\ now + dt <= MaxOversoldTime
    /\ CountedBuy(should_buy(strategy, price, rsi, FALSE, now + dt), price, rsi, now + dt,
                  SeenAtGate(rsi, now + dt))
    /\ now' = now + dt
    /\ ticks' = ticks + 1
    /\ UNCHANGED <<pc, closes, last_candle_closed, cfg, is_running, current_price, current_rsi, current_balance,
                   position, stats, trades, risk, ws>>

\* d is what should_sell decided for a position of the caller; the accumulators of
\* should_buy are not its business
CountedSell(d, price, rsi, t) ==
    /\ strategy' = d.s
    /\ ret' = [op |-> "should_sell", price |-> price, rsi |-> rsi, t |-> t,
               before |-> strategy, signal |-> d.close, seen_at_gate |-> OversoldSeen,
               oversold_seen |-> OversoldSeen]

CallShouldSellCounted(price, rsi, dt) ==
    /\ ticks < MaxOversoldCalls
    /\ now + dt <= MaxOversoldTime
    /\ CountedSell(should_sell(strategy, TestPosition("LONG"), price, rsi, now + dt),
                   price, rsi, now + dt)
    /\ now' = now + dt
    /\ ticks' = ticks + 1
    /\ UNCHANGED <<pc, closes, last_candle_closed, cfg, is_running, current_price, current_rsi, current_balance,
                   position, stats, trades, risk, ws>>

OversoldNext ==
    \/ \E price \in OversoldPrices, rsi \in OversoldRsiValues, dt \in OversoldTimeSteps :
          CallShouldBuyCounted(price, rsi, dt)
    \/ \E price \in OversoldSellPrices, dt \in OversoldTimeSteps :
          CallShouldSellCounted(price, 100, dt)

\* the default settings: spot, simulation, dynamic sizing
InitOversold ==
    /\ cfg = Config(FALSE, TRUE, TRUE, 1)
    /\ InitBot

SpecOversold == InitOversold /\ [][OversoldNext]_vars

----------------------------------------------------------------------------
(* TradingStats.update called with one closed trade after another          *)

MaxUpdates == 4          \* update calls made in one run

\* the P&L of the closed trades, in cents: losses, break-even, profits
StatsPnls == {-500, -300, 0, 300, 500}

\* the Trade _execute_sell builds for one unit bought at 100.00
ClosedTrade(pl) ==
    [side |-> "LONG", closed_as |-> "SELL", buy_price |-> 10000,
     sell_price |-> 10000 + pl, profit_loss |-> pl,
     profit_loss_percentage |-> (pl * 10000) \div 10000,
     result |-> IF pl >= 0 THEN "WIN" ELSE "LOSS", reason |-> "big_profit"]

CallStatsUpdate(pl) ==
    /\ ticks < MaxUpdates
    /\ stats' = StatsUpdate(stats, ClosedTrade(pl))
    /\ trades' = Append(trades, ClosedTrade(pl))
    /\ ticks' = ticks + 1
    /\ UNCHANGED <<pc, closes, last_candle_closed, cfg, is_running, current_price, current_rsi, current_balance,
                   position, strategy, risk, ws, now, ret>>

StatsNext == \E pl \in StatsPnls : CallStatsUpdate(pl)

InitStats ==
    /\ cfg = Config(FALSE, TRUE, TRUE, 1)
    /\ InitBot

SpecStats == InitStats /\ [][StatsNext]_vars

----------------------------------------------------------------------------
(* Properties                                                              *)

\* the answers a gateway can give to the orders of one tick
Gateways == [buy : BOOLEAN, short : BOOLEAN, close : BOOLEAN]

\* the tick (close, rsi) delivered dt minutes from now, evaluated in the current state
NextTick(close, rsi, dt, gw) == _on_market_data(Bot, cfg, close, rsi, now + dt, gw)

Untouched(a, b) ==
    /\ a.position = b.position
    /\ a.current_balance = b.current_balance
    /\ a.stats = b.stats
    /\ a.trades = b.trades

SameAccumulators(a, b) ==
    /\ a.oversold_counter = b.oversold_counter
    /\ a.oversold_intensity = b.oversold_intensity
    /\ a.oversold_start_time = b.oversold_start_time
    /\ a.lowest_rsi = b.lowest_rsi
    /\ a.overbought_counter = b.overbought_counter
    /\ a.overbought_intensity = b.overbought_intensity
    /\ a.overbought_start_time = b.overbought_start_time
    /\ a.highest_rsi = b.highest_rsi

C8_FailureLeavesRiskState ==
    (ret.op = "validate_trade" /\ ~ret.ok) => risk = ret.before

\* the drawdown of balance from peak, in 1/100 %
DrawdownFrom(peak, balance) ==
    IF balance > peak THEN 0 ELSE ((peak - balance) * 10000) \div peak

\* C9: every validate_trade call that passes the balance and size checks while the
\* balance is at a drawdown of at least MAX_DRAWDOWN_PCT from the peak fails with the
\* drawdown-limit reason.
C9_DrawdownLimitRejects ==
    ( /\ ret.op = "validate_trade"
      /\ ret.balance > 0
      /\ 100 * Times(ret.position_size, ret.entry_price) <= 101 * ret.balance
      /\ DrawdownFrom(ret.before.peak_balance, ret.balance) >= MAX_DRAWDOWN_PCT )
    => (~ret.ok /\ ret.reason = "max_drawdown")

\* C10: validate_trade fails whenever position_size * entry_price exceeds 1.01 times
\* the balance, and fails with the insufficient-balance reason whenever the balance is
\* zero or negative, whatever the other arguments.
C10_SizeAndBalanceChecks ==
    ret.op = "validate_trade" =>
        /\ 100 * Times(ret.position_size, ret.entry_price) > 101 * ret.balance => ~ret.ok
        /\ ret.balance <= 0 => (~ret.ok /\ ret.reason = "insufficient_balance")

\* a call with a positive balance and a notional just above 101 % of it was refused
C10_Witness ==
    /\ ret.op = "validate_trade"
    /\ ret.balance > 0
    /\ 100 * Times(ret.position_size, ret.entry_price) > 101 * ret.balance
    /\ 100 * Times(ret.position_size, ret.entry_price) <= 110 * ret.balance
    /\ ~ret.ok
    /\ ret.reason = "position_too_large"

\* the last direct call handed its balance to _update_drawdown
BalanceUpdated ==
    \/ ret.op = "get_risk_status"
    \/ /\ ret.op = "validate_trade"
       /\ ret.has_stats
       /\ ret.reason \in {"max_drawdown", "validated"}

\* C11: across any sequence of balance updates from a positive initial balance,
\* current_drawdown_pct is >= 0 and equals (peak_balance - last balance) /
\* peak_balance * 100, and peak_balance never decreases; a call that updates no
\* balance leaves both as they were.
C11_DrawdownTracksPeak ==
    /\ risk.current_drawdown_pct >= 0
    /\ risk.peak_balance > 0
    /\ risk.peak_balance >= ret.before.peak_balance
    /\ BalanceUpdated =>
          /\ risk.peak_balance = Max(ret.before.peak_balance, ret.balance)
          /\ risk.current_drawdown_pct =
                ((risk.peak_balance - ret.balance) * 10000) \div risk.peak_balance
    /\ (ret.op # "none" /\ ~BalanceUpdated) => risk = ret.before

\* a new peak was recorded after a drawdown, and the drawdown went back to 0
C11_Witness ==
    /\ BalanceUpdated
    /\ ret.before.current_drawdown_pct > 0
    /\ ret.balance > ret.before.peak_balance
    /\ risk.peak_balance = ret.balance
    /\ risk.current_drawdown_pct = 0

\* C12: after any sequence of should_buy and should_short calls with indicator
\* values in [0, 100], the two counters and the two intensities are >= 0.
C12_AccumulatorsNonNegative ==
    /\ strategy.oversold_counter >= 0
    /\ strategy.overbought_counter >= 0
    /\ strategy.oversold_intensity >= 0
    /\ strategy.overbought_intensity >= 0

\* should_buy decayed an intensity smaller than the decay step, and it stopped at 0
C12_Witness ==
    /\ ret.op = "should_buy"
    /\ ret.rsi >= RSI_OVERSOLD
    /\ ret.rsi < 45
    /\ ~TooSoonAfterSell(ret.before, ret.t)
    /\ ret.before.oversold_intensity < 2
    /\ strategy.oversold_intensity = 0

\* the close reasons of the three tier price targets
TierReasons == {"tier1", "tier2", "tier3"}

\* what should_sell answers for the open position on the tick (close, rsi) delivered
\* dt minutes from now
NextDecision(close, rsi, dt) ==
    should_sell(update_price_extremes(strategy, close, rsi), position, close, rsi,
                now + dt)

AfterLongUpdate ==
    OversoldUpdate(update_price_extremes(ret.before, ret.price, ret.rsi), ret.rsi, ret.t)

AfterShortUpdate ==
    OverboughtUpdate(update_price_extremes(ret.before, ret.price, ret.rsi), ret.rsi, ret.t)

\* C15: should_buy signals only on a tick where, after the tick's accumulator update,
\* (oversold_counter >= MIN_RSI_COUNTER or oversold_intensity >= 10) and price <=
\* highest_price * (1 - 0.75 %) and lowest_rsi is below the oversold threshold with
\* rsi - lowest_rsi >= RSI_BOUNCE_THRESHOLD; should_short is gated by the mirror.
C15_EntryGate ==
    /\ (ret.op = "should_buy" /\ ret.signal) =>
          LET a == AfterLongUpdate
          IN /\ a.oversold_counter >= MIN_RSI_COUNTER \/ a.oversold_intensity >= 100
             /\ 10000 * ret.price <= (10000 - 75) * a.highest_price
             /\ a.lowest_rsi < RSI_OVERSOLD
             /\ ret.rsi - a.lowest_rsi >= RSI_BOUNCE_THRESHOLD
    /\ (ret.op = "should_short" /\ ret.signal) =>
          LET a == AfterShortUpdate
          IN /\ a.overbought_counter >= MIN_RSI_COUNTER \/ a.overbought_intensity >= 100
             /\ 10000 * ret.price >= (10000 + 75) * a.lowest_price
             /\ a.highest_rsi > RSI_OVERBOUGHT
             /\ a.highest_rsi - ret.rsi >= RSI_BOUNCE_THRESHOLD

\* should_buy signalled on the intensity alone, the counter having decayed below
\* MIN_RSI_COUNTER on that tick
C15_Witness ==
    /\ ret.op = "should_buy"
    /\ ret.signal
    /\ AfterLongUpdate.oversold_counter < MIN_RSI_COUNTER
    /\ AfterLongUpdate.oversold_intensity >= 100
    /\ strategy.oversold_counter = 0
    /\ strategy.lowest_rsi = 100

\* C16: a should_buy or should_short call made less than MIN_TIME_AFTER_SELL minutes
\* after the last exit signal returns no entry signal and leaves the counters,
\* intensities, excursion start times and extremes as they were.
C16_CooldownSkipsEntryEvaluation ==
    ( /\ ret.op \in {"should_buy", "should_short"}
      /\ ret.before.last_sell_time # NoTime
      /\ ret.t - ret.before.last_sell_time < MIN_TIME_AFTER_SELL )
    => (~ret.signal /\ strategy = ret.before)

\* should_buy was called inside the cooldown with an oversold indicator and a price
\* below the tracked low, and nothing was recorded
C16_Witness ==
    /\ ret.op = "should_buy"
    /\ ret.before.last_sell_time # NoTime
    /\ ret.t - ret.before.last_sell_time < MIN_TIME_AFTER_SELL
    /\ ret.rsi < RSI_OVERSOLD
    /\ ret.price < ret.before.lowest_price
    /\ ~ret.signal
    /\ strategy = ret.before

\* C17: an exception raised while a tick is processed is caught at the tick boundary
\* and does not stop the listener: as long as the bot has not been stopped the
\* WebSocket handler is running, which is all the next candle message needs to be
\* handed to _on_market_data.
C17_ExceptionStaysInsideTick ==
    is_running => ws.is_running

\* the last tick raised inside should_sell (the overbought profit exit of an open
\* LONG), on_message logged it, and the handler and the bot are still running
C17_Witness ==
    /\ ws.logged_error
    /\ ws.is_running
    /\ is_running
    /\ position.side = "LONG"
    /\ position.current_rsi = current_rsi
    /\ current_rsi >= RSI_OVERBOUGHT
    /\ current_rsi + 3 <= strategy.highest_rsi

OwnSideExit ==
    IF position.side = "LONG"
    THEN _execute_sell(Bot, cfg, current_price, "shutdown", TRUE).b
    ELSE _execute_cover(Bot, cfg, current_price, "shutdown", TRUE).b

\* the last Trade of bot b
LastTrade(b) == b.trades[Len(b.trades)]

BigProfitExample ==
    LET c == Config(FALSE, TRUE, FALSE, 1)
        q == calculate_position_size(c.dynamic, 100000, 2000, 0, c.leverage)
        b == [current_balance |-> 0, position |-> NewPosition("LONG", q, 2000, 50, 0),
              stats |-> StatsInit(100000), trades |-> <<>>, strategy |-> StrategyInit,
              risk |-> RiskInit(100000)]
    IN LastTrade(_execute_sell(b, c, 2060, "big_profit", TRUE).b)

\* C20: the Trade of a strategy-driven close has pnl = (exit - entry) * quantity for a
\* LONG and (entry - exit) * quantity for a SHORT (to the cent), pnl_pct = pnl /
\* (entry * quantity) * 100, and result WIN exactly when pnl >= 0, else LOSS; fixed
\* sizing with balance 1000, entry 2000 and exit 2060 gives quantity 0.5, pnl 30, 3 %,
\* WIN.
C20_TradePnL ==
    [][ /\ BigProfitExample.profit_loss = 3000
        /\ BigProfitExample.profit_loss_percentage = 300
        /\ BigProfitExample.result = "WIN"
        /\ 100 * calculate_position_size(FALSE, 100000, 2000, 0, 1).num
              = 50 * 100 * calculate_position_size(FALSE, 100000, 2000, 0, 1).den
        /\ (is_running' /\ position.side # "NONE" /\ position'.side = "NONE") =>
              LET tr == trades'[Len(trades')]
                  q == position.quantity
                  entry == position.entry_price
                  exit == current_price'
                  exact == IF position.side = "LONG" THEN (exit - entry) * q.num
                           ELSE (entry - exit) * q.num
              IN /\ Len(trades') = Len(trades) + 1
                 /\ tr.profit_loss * q.den - exact < q.den
                 /\ exact - tr.profit_loss * q.den < q.den
                 /\ tr.profit_loss_percentage
                       = (tr.profit_loss * 10000) \div Times(q, entry)
                 /\ tr.result = IF tr.profit_loss >= 0 THEN "WIN" ELSE "LOSS" ]_vars

\* a SHORT was covered by the strategy below its entry: a positive P&L, a WIN
C20_Witness ==
    /\ is_running
    /\ position.side = "NONE"
    /\ trades # <<>>
    /\ trades[Len(trades)].side = "SHORT"
    /\ trades[Len(trades)].closed_as = "COVER"
    /\ trades[Len(trades)].sell_price < trades[Len(trades)].buy_price
    /\ trades[Len(trades)].profit_loss > 0
    /\ trades[Len(trades)].result = "WIN"

\* the last period deltas of a series are all zero
FlatWindow(prices, period) ==
    /\ Len(prices) >= period + 1
    /\ \A i \in (Len(prices) - period + 1)..Len(prices) : prices[i] = prices[i - 1]

\* C21: calculate_rsi returns 50 for every series of at least N + 1 prices whose last
\* N deltas are all zero (period 14 and 15 identical prices for one), never None
C21_FlatWindowGivesFifty ==
    (ret.op = "calculate_rsi" /\ FlatWindow(ret.prices, ret.period)) => ret.value = 50

\* C22: update_price_extremes never lowers highest_price or highest_rsi and never
\* raises lowest_price or lowest_rsi, and afterwards the tracked ranges contain the
\* price and the indicator just given; reset_extremes restores highest_price = 0,
\* lowest_price = +inf, highest_rsi = 0, lowest_rsi = 100
C22_ExtremesOnlyWiden ==
    /\ ret.op = "update_price_extremes" =>
          /\ strategy.highest_price >= ret.before.highest_price
          /\ strategy.highest_rsi >= ret.before.highest_rsi
          /\ strategy.lowest_price <= ret.before.lowest_price
          /\ strategy.lowest_rsi <= ret.before.lowest_rsi
          /\ strategy.lowest_price <= ret.price /\ ret.price <= strategy.highest_price
          /\ strategy.lowest_rsi <= ret.rsi /\ ret.rsi <= strategy.highest_rsi
    /\ ret.op = "reset_extremes" =>
          /\ strategy.highest_price = 0
          /\ strategy.lowest_price = Inf
          /\ strategy.highest_rsi = 0
          /\ strategy.lowest_rsi = 100

\* an update strictly inside the tracked ranges, after the ranges had been widened
C22_Witness ==
    /\ ret.op = "update_price_extremes"
    /\ ret.before.lowest_price < ret.price /\ ret.price < ret.before.highest_price
    /\ ret.before.lowest_rsi < ret.rsi /\ ret.rsi < ret.before.highest_rsi
    /\ strategy = ret.before

\* the step is a tick that found the bot flat and on which should_buy gave a signal
LongSignalTick ==
    /\ is_running /\ ws.is_running
    /\ ticks' = ticks + 1
    /\ current_rsi' # NoRsi
    /\ position.side = "NONE"
    /\ should_buy(update_price_extremes(strategy, current_price', current_rsi'),
                  current_price', current_rsi', FALSE, now').signal

\* C23: in simulation, a tick on which the bot is flat and should_buy signals, with a
\* positive balance, a sized notional within 101 % of the balance and the drawdown
\* below the limit, ends with an open LONG whose entry_price is the tick's close and
\* whose quantity is the sized quantity
C23_SignalOpensLong ==
    [][(/\ LongSignalTick
        /\ cfg.is_simulation
        /\ current_balance > 0
        /\ 100 * Times(calculate_position_size(cfg.dynamic, current_balance,
                                               current_price', 0, cfg.leverage),
                        current_price') <= 101 * current_balance
        /\ _update_drawdown(risk, current_balance).current_drawdown_pct
              < MAX_DRAWDOWN_PCT) =>
          /\ position'.side = "LONG"
          /\ position'.entry_price = current_price'
          /\ position'.quantity = calculate_position_size(cfg.dynamic, current_balance,
                                                          current_price', 0, cfg.leverage)
       ]_vars

\* the step is a candle message received while the bot runs with a position open
TickWhileOpen ==
    /\ is_running /\ ws.is_running
    /\ ticks' = ticks + 1
    /\ position.side # "NONE"

AllOrdersOk == [buy |-> TRUE, short |-> TRUE, close |-> TRUE]

\* d is the answer of should_sell for pos on the tick (price, rsi); peak and trough are
\* the highest and lowest indicator values seen since pos was entered, this tick
\* included.  The min-profit rule applied only under the three conditions.
MinProfitJustified(d, pos, price, rsi, peak, trough) ==
    d.reason = "min_profit" =>
        IF pos.side = "LONG"
        THEN /\ rsi >= RSI_OVERBOUGHT
             /\ Scaled(price) >= Scaled(pos.entry_price)
                   + calculate_percentage(MIN_PROFIT_PERCENTAGE, pos.entry_price)
             /\ rsi + 3 <= peak
        ELSE /\ rsi <= RSI_OVERSOLD
             /\ Scaled(price) <= Scaled(pos.entry_price)
                   - calculate_percentage(MIN_PROFIT_PERCENTAGE, pos.entry_price)
             /\ rsi - 3 >= trough

\* b is the bot after a tick with indicator r1 at time t1: if that tick entered a
\* position, the first tick after it applies the min-profit rule only when justified
FirstTickAfterEntry(b, r1, t1) ==
    b.position.side # "NONE" =>
        \A c2 \in Prices, r2 \in FaultRsiValues, dt2 \in TimeSteps :
            MinProfitJustified(
                should_sell(update_price_extremes(b.strategy, c2, r2), b.position,
                            c2, r2, t1 + dt2),
                b.position, c2, r2,
                IF r1 > r2 THEN r1 ELSE r2, IF r1 < r2 THEN r1 ELSE r2)

StepDecision ==
    should_sell(update_price_extremes(strategy, current_price', current_rsi'),
                position, current_price', current_rsi', now')

HardCapCondition(pos, price, t) ==
    /\ t - pos.entry_time >= MAX_HOLD_HOURS
    /\ IF pos.side = "LONG" THEN price < pos.entry_price ELSE price > pos.entry_price

\* the tier-3 exit condition of the source on a tick at time t, s being the strategy
\* before the tick: indicator below oversold, tier 3 active, price within the
\* tolerance the tick's ratchet update leaves
TierThreeCondition(s, pos, price, rsi, t) ==
    /\ rsi < RSI_OVERSOLD
    /\ s.sell_very_fast
    /\ IF pos.side = "LONG"
       THEN Scaled(price) >= Scaled(pos.entry_price)
               - calculate_percentage(RatchetUpdate(s, t).very_fast_lose_amt,
                                      pos.entry_price)
       ELSE Scaled(price) <= Scaled(pos.entry_price)
               + calculate_percentage(RatchetUpdate(s, t).very_fast_lose_amt,
                                      pos.entry_price)

\* C28: on a tick where both the hard-cap close condition and the tier-3 exit
\* condition hold, should_sell closes with the hard cap's reason ('Max hold time
\* exceeded'), never with the tier's
C28_HardCapBeforeTierThree ==
    (/\ ret.op = "should_sell"
     /\ HardCapCondition(position, ret.price, ret.t)
     /\ TierThreeCondition(ret.before, position, ret.price, ret.rsi, ret.t)) =>
        /\ ret.close
        /\ ret.reason = "max_hold"

\* the tolerance the schedule gives vf minutes after the tier-3 activation
RatchetSchedule(vf) ==
    IF vf >= 90 THEN 300 ELSE IF vf >= 60 THEN 200 ELSE IF vf >= 30 THEN 150 ELSE 100

C30_NoExitOnActivationTick ==
    ret.op = "should_sell" =>
        /\ ret.reason = "tier1" => ret.before.sell_at_buyprice
        /\ ret.reason = "tier2" => ret.before.sell_fast
        /\ ret.reason = "tier3" => ret.before.sell_very_fast

\* tier 3 activates on a call whose indicator is below oversold, and nothing closes
C30_Witness ==
    /\ ret.op = "should_sell"
    /\ ret.rsi < RSI_OVERSOLD
    /\ ~ret.before.sell_very_fast
    /\ strategy.sell_very_fast
    /\ strategy.sell_very_fast_time = ret.t
    /\ ~ret.close

\* the intensity an oversold should_buy call adds when it adds no duration bonus
IntensityWithoutBonus(before, rsi) ==
    before.oversold_intensity + 10 + (RSI_OVERSOLD - rsi)

\* C31: the +0.5 duration bonus is added on an oversold tick only if the indicator has
\* been below the oversold threshold on every tick for more than 5 minutes up to this
\* tick; an excursion interrupted by a tick at or above the threshold restarts the
\* count.  Stated for two should_buy calls in a row: an oversold call that follows a
\* call at or above the threshold starts a new excursion and adds no bonus.
C31_BonusNeedsContinuousExcursion ==
    [][(/\ ret.op = "should_buy"
        /\ ret.rsi >= RSI_OVERSOLD
        /\ ret'.op = "should_buy"
        /\ ret'.rsi < RSI_OVERSOLD
        /\ ~TooSoonAfterSell(ret'.before, ret'.t)) =>
          OversoldUpdate(update_price_extremes(ret'.before, ret'.price, ret'.rsi),
                         ret'.rsi, ret'.t).oversold_intensity
              = IntensityWithoutBonus(ret'.before, ret'.rsi)]_vars

\* the candle message before this one was flagged is_closed
FollowsClosedCandle == ret.op = "candle" /\ ret.is_closed

\* C32: the close-price series grows by exactly one element on a tick that follows a
\* tick flagged is_closed and otherwise only has its last element overwritten; its
\* length never decreases and no element other than the last is modified by a tick
C32_SeriesAppendOnlyButLast ==
    [][(ticks' = ticks + 1) =>
          /\ IF FollowsClosedCandle
             THEN closes' = Append(closes, current_price')
             ELSE /\ Len(closes') = Len(closes)
                  /\ closes'[Len(closes')] = current_price'
          /\ Len(closes') >= Len(closes)
          /\ \A i \in 1..(Len(closes) - 1) : closes'[i] = closes[i]]_vars

\* a closed candle, then a message that appended, then one that overwrote the newest
\* element with a different price
C32_Witness ==
    /\ ret.op = "candle"
    /\ ~ret.is_closed
    /\ ~last_candle_closed
    /\ Len(closes) = 4
    /\ closes[4] = ret.close
    /\ closes[3] # closes[4]
    /\ ticks >= 3

\* the balance the open position pos was entered from, bal being the balance since:
\* a futures entry took the margin from it, a spot entry sized the quantity from it
\* (calculate_position_size) and left 0
EntryBalance(pos, c, bal) ==
    IF c.is_futures THEN bal + Times(pos.quantity, pos.entry_price) \div c.leverage
    ELSE IF c.dynamic
        THEN (pos.quantity.num * 100) \div (c.leverage * MAX_RISK_PER_TRADE_PCT)
    ELSE pos.quantity.num

C34_SizedEntryNeverOversized ==
    ret.op = "size_then_validate" => ret.reason # "position_too_large"

\* C35: with the default time thresholds (0.5 h, 1.5 h, 2.5 h), at every tick boundary
\* the tier flags are nested: sell_very_fast implies sell_fast, and sell_fast implies
\* sell_at_buyprice
C35_TierFlagsNested ==
    /\ strategy.sell_very_fast => strategy.sell_fast
    /\ strategy.sell_fast => strategy.sell_at_buyprice

\* the flags went up one after the other: the second is set on this call, the first
\* was set before it, the third is not set yet
C35_Witness ==
    /\ ret.op = "should_sell"
    /\ ret.before.sell_at_buyprice
    /\ ~ret.before.sell_fast
    /\ strategy.sell_at_buyprice
    /\ strategy.sell_fast
    /\ ~strategy.sell_very_fast

\* the trend of the tick the last should_sell call was made on
CallTrend == PriceTrend(position.side, position.entry_price, ret.price)

\* C36: no tier flag activates on a tick whose trend is 'recovering', so the
\* lengthened thresholds (x1.3, x1.2) never decide an activation; and tier 3 activates
\* only under 'deteriorating', so its effective holding-time threshold is always
\* 0.8 x SELL_AT_LOSS_2_0_HOURS
C36_NoActivationWhileRecovering ==
    ret.op = "should_sell" =>
        /\ ( \/ strategy.sell_at_buyprice /\ ~ret.before.sell_at_buyprice
             \/ strategy.sell_fast /\ ~ret.before.sell_fast
             \/ strategy.sell_very_fast /\ ~ret.before.sell_very_fast )
           => CallTrend # "recovering"
        /\ (strategy.sell_very_fast /\ ~ret.before.sell_very_fast) =>
              /\ CallTrend = "deteriorating"
              /\ 100 * (ret.t - position.entry_time) >= 80 * SELL_AT_LOSS_2_0_HOURS

\* tier 3 activated 120 minutes after the entry, before SELL_AT_LOSS_2_0_HOURS
C36_Witness ==
    /\ ret.op = "should_sell"
    /\ strategy.sell_very_fast
    /\ ~ret.before.sell_very_fast
    /\ CallTrend = "deteriorating"
    /\ ret.t - position.entry_time = 120
    /\ ret.t - position.entry_time < SELL_AT_LOSS_2_0_HOURS

\* r is what a tick did to the flat bot: if the drawdown already stood at the limit,
\* or the tick had an entry rejected for it, the bot is flat after the tick, with the
\* drawdown still at the limit
StaysRejected(r) ==
    ( \/ risk.current_drawdown_pct >= MAX_DRAWDOWN_PCT
      \/ r.ev.reject_reason = "max_drawdown" ) =>
        /\ r.b.position.side = "NONE"
        /\ r.b.risk.current_drawdown_pct >= MAX_DRAWDOWN_PCT

\* C37: once an entry is rejected because the drawdown is at or above MAX_DRAWDOWN_PCT
\* while no position is open, every later entry attempt of the run is rejected too: no
\* position is opened again.  A rejection leaves the bot flat with the drawdown at the
\* limit, and from such a state every tick leaves it so.
C37_DrawdownRejectionIsFinal ==
    (is_running /\ position.side = "NONE") =>
        \A close \in DrawdownPrices, rsi \in DrawdownRsiValues, dt \in TimeSteps,
           gw \in GatewayOutcomes :
            StaysRejected(NextTick(close, rsi, dt, gw))

\* the tick just delivered found the bot flat and had its entry rejected for the
\* drawdown, after one closed trade, and the bot is flat still
C37_Witness ==
    /\ is_running
    /\ ret.op = "tick"
    /\ ret.flat_before
    /\ ret.reject_reason = "max_drawdown"
    /\ position.side = "NONE"
    /\ Len(trades) = 1
    /\ cfg.is_futures
    /\ risk.current_drawdown_pct >= MAX_DRAWDOWN_PCT

\* C38: with oversold 30 and MIN_RSI_COUNTER 3, a LONG entry signal fires only when
\* at least three ticks below the oversold threshold have been processed since the
\* oversold accumulators were last reset; it never fires on the first oversold tick.
C38_SignalNeedsThreeOversoldTicks ==
    (ret # NoCall /\ ret.op = "should_buy" /\ ret.signal) =>
        /\ ret.seen_at_gate >= 3
        /\ ~(ret.rsi < RSI_OVERSOLD /\ ret.seen_at_gate = 1)

\* a signal on the tick after exactly three oversold ticks
C38_Witness ==
    /\ ret # NoCall
    /\ ret.op = "should_buy"
    /\ ret.signal
    /\ ret.seen_at_gate = 3
    /\ ret.rsi >= RSI_OVERSOLD
    /\ ret.before.oversold_counter = 3

\* the sum of the P&L of the trades of ts that have the given result
RECURSIVE SumOfPnl(_, _)
SumOfPnl(ts, result) ==
    IF ts = <<>> THEN 0
    ELSE (IF Head(ts).result = result THEN Head(ts).profit_loss ELSE 0)
         + SumOfPnl(Tail(ts), result)

\* C39: after any sequence of TradingStats.update calls with WIN or LOSS trades,
\* average_profit * winning_trades is the sum of the P&L of the winning trades and
\* average_loss * losing_trades is the sum of the P&L of the losing trades.
C39_AveragesTimesCounts ==
    /\ stats.average_profit.num * stats.winning_trades
           = SumOfPnl(trades, "WIN") * stats.average_profit.den
    /\ stats.average_loss.num * stats.losing_trades
           = SumOfPnl(trades, "LOSS") * stats.average_loss.den

====
